---- MODULE Spec2Model ----
(***************************************************************************)
(* Model of table_extraction.py: grid construction, island segmentation,   *)
(* region splitting, header extraction, the table report and the header    *)
(* lookup used by formula annotation.                                      *)
(*                                                                         *)
(* A grid is a record [R, C, a] where a maps the 0-based index <<i, j>>    *)
(* to a boolean, as the numpy array of the source.  A bounding box is the  *)
(* 1-based tuple <<r1, r2, c1, c2>> of the source.                         *)
(***************************************************************************)
EXTENDS Integers, Sequences, FiniteSets, TLC

VARIABLES
    pc,          \* position in the run
    grid,        \* the grid handed to the segmentation functions
    bbox,        \* the box handed to split_bbox_on_empty_lines
    parts,       \* its result
    min_rows,    \* arguments of flood_fill_islands
    min_cols,
    islands,     \* its result
    implicit_boxes, \* the boxes generate_table_report collects from a grid
    wb,          \* the workbook: the sequence of its worksheets
    grids,       \* the grid built for each sheet by generate_table_report
    table_info,  \* the table report, keyed by sheet title
    sheet_name,  \* arguments of find_header_for_cell
    cell_ref,
    cell_rc,     \* the <<row, col>> that cell_ref was written for
    site,        \* the region whose header find_header_for_cell returned
    result,      \* the value find_header_for_cell returned
    formula,     \* cell.formula of the cell extract_formulas is at
    excel_model, \* what the formulas library gave for that cell
    refs_sorted, \* the order annotate_formula went through the references in
    record,      \* the formula record appended for the cell
    detected,    \* what detect_header_and_body returned for bbox on wb[1]
    range_str,   \* what bbox_to_range_str returned for bbox
    table_regions, \* get_explicit_table_regions for a table declared over range_str
    calls,       \* the pending calls of the splitter, the running one first
    fill,        \* the locals of flood: stack, visited, extent
    job,         \* the JSON files process_json_to_postgres stores, and its progress
    pool,        \* the connection pool: connections out, calls of putconn
    in_txn,      \* the rows written in the open transaction, per table
    committed    \* the rows committed, per table

geomVars == <<grid, bbox, parts, min_rows, min_cols, islands, implicit_boxes>>
pipeVars == <<wb, grids, table_info, sheet_name, cell_ref, cell_rc, site, result>>
fmlVars == <<formula, excel_model, refs_sorted, record>>
dbVars == <<job, pool, in_txn, committed>>
runVars == <<calls, fill, dbVars>>
auxVars == <<detected, range_str, table_regions, runVars>>
vars == <<pc, geomVars, pipeVars, fmlVars, auxVars>>

\* ------------------------------------------------------------------ bounds
\* the largest number of cells of a grid handed to the segmentation functions
MaxGridCells == 9
\* the largest number of cells of the first worksheet
MaxSheetCells == 4

\* the shapes <<R, C>> of at most n cells
Shapes(n) == { d \in (1 .. n) \X (1 .. n) : d[1] * d[2] <= n }

Max(a, b) == IF a >= b THEN a ELSE b
Min(a, b) == IF a <= b THEN a ELSE b

\* ------------------------------------------------------- grids and boxes
Cells(R, C) == (0 .. R - 1) \X (0 .. C - 1)

Grids(R, C) == { [R |-> R, C |-> C, a |-> f] : f \in [Cells(R, C) -> BOOLEAN] }

\* every 1-based box r1 <= r2, c1 <= c2 lying inside an R x C grid
Boxes(R, C) ==
    { <<r1, r2, c1, c2>> : r1 \in 1 .. R, r2 \in 1 .. R, c1 \in 1 .. C, c2 \in 1 .. C }
        \cap { b \in (1 .. R) \X (1 .. R) \X (1 .. C) \X (1 .. C) : b[1] <= b[2] /\ b[3] <= b[4] }

\* subgrid.sum(axis=1)[i] for subgrid = grid[r0:r1i+1, c0:c1i+1]
row_sums(g, r0, c0, c1i, i) == Cardinality({ j \in c0 .. c1i : g.a[<<r0 + i, j>>] })

\* subgrid.sum(axis=0)[j]
col_sums(g, r0, r1i, c0, j) == Cardinality({ i \in r0 .. r1i : g.a[<<i, c0 + j>>] })

\* The run-collecting loop shared by both split functions: sums is the
\* sequence of line sums (index k + 1 holds line k), k the loop variable,
\* start the open run (<<>> for None, <<j>> for index j), acc the runs so far.
RECURSIVE non_empty_runs_NoLastRun(_, _, _, _)
non_empty_runs_NoLastRun(sums, k, start, acc) ==
    IF k >= Len(sums)
    THEN acc
    ELSE IF sums[k + 1] > 0
         THEN non_empty_runs_NoLastRun(sums, k + 1, IF start = <<>> THEN <<k>> ELSE start, acc)
         ELSE IF start # <<>>
              THEN non_empty_runs_NoLastRun(sums, k + 1, <<>>, Append(acc, <<start[1], k - 1>>))
              ELSE non_empty_runs_NoLastRun(sums, k + 1, <<>>, acc)

RECURSIVE non_empty_runs(_, _, _, _)
non_empty_runs(sums, k, start, acc) ==
    IF k >= Len(sums)
    THEN IF start # <<>> THEN Append(acc, <<start[1], Len(sums) - 1>>) ELSE acc
    ELSE IF sums[k + 1] > 0
         THEN non_empty_runs(sums, k + 1, IF start = <<>> THEN <<k>> ELSE start, acc)
         ELSE IF start # <<>>
              THEN non_empty_runs(sums, k + 1, <<>>, Append(acc, <<start[1], k - 1>>))
              ELSE non_empty_runs(sums, k + 1, <<>>, acc)

RowSumSeq(g, b) ==
    [ k \in 1 .. (b[2] - b[1] + 1) |-> row_sums(g, b[1] - 1, b[3] - 1, b[4] - 1, k - 1) ]

ColSumSeq(g, b) ==
    [ k \in 1 .. (b[4] - b[3] + 1) |-> col_sums(g, b[1] - 1, b[2] - 1, b[3] - 1, k - 1) ]

HasZero(sums) == \E k \in 1 .. Len(sums) : sums[k] = 0

\* the box of row run <<rs, re>> of box b: (r0 + rs + 1, r0 + re + 1, c1, c2)
RowRunBox(b, run) == <<(b[1] - 1) + run[1] + 1, (b[1] - 1) + run[2] + 1, b[3], b[4]>>

\* the box of column run <<cs, ce>> of box b: (r1, r2, c0 + cs + 1, c0 + ce + 1)
ColRunBox(b, run) == <<b[1], b[2], (b[3] - 1) + run[1] + 1, (b[3] - 1) + run[2] + 1>>

RECURSIVE split_bbox_on_empty_lines(_, _)
RECURSIVE split_bbox_on_empty_rows(_, _)
RECURSIVE ExtendRowsOverCols(_, _, _, _)
RECURSIVE ExtendLinesOverRows(_, _, _, _)

\* for (cs, ce) in non_empty_cols: subregions.extend(split_bbox_on_empty_rows(..))
ExtendRowsOverCols(g, b, runs, k) ==
    IF k > Len(runs) THEN <<>>
    ELSE split_bbox_on_empty_rows(g, ColRunBox(b, runs[k])) \o ExtendRowsOverCols(g, b, runs, k + 1)

\* for rs, re in non_empty_rows: out.extend(split_bbox_on_empty_lines(..))
ExtendLinesOverRows(g, b, runs, k) ==
    IF k > Len(runs) THEN <<>>
    ELSE split_bbox_on_empty_lines(g, RowRunBox(b, runs[k])) \o ExtendLinesOverRows(g, b, runs, k + 1)

\* variant: the unsplit box is returned in the 0-based coordinates of the sub-grid
split_bbox_on_empty_lines_ZeroBased(g, b) ==
    LET rs == RowSumSeq(g, b)
        cs == ColSumSeq(g, b)
    IN  IF HasZero(cs)
        THEN ExtendRowsOverCols(g, b, non_empty_runs(cs, 0, <<>>, <<>>), 1)
        ELSE IF HasZero(rs)
             THEN LET runs == non_empty_runs(rs, 0, <<>>, <<>>)
                  IN  [ k \in 1 .. Len(runs) |-> RowRunBox(b, runs[k]) ]
             ELSE << <<b[1] - 1, b[2] - 1, b[3] - 1, b[4] - 1>> >>

split_bbox_on_empty_lines(g, b) ==
    LET rs == RowSumSeq(g, b)
        cs == ColSumSeq(g, b)
    IN  IF HasZero(cs)
        THEN ExtendRowsOverCols(g, b, non_empty_runs(cs, 0, <<>>, <<>>), 1)
        ELSE IF HasZero(rs)
             THEN LET runs == non_empty_runs(rs, 0, <<>>, <<>>)
                  IN  [ k \in 1 .. Len(runs) |-> RowRunBox(b, runs[k]) ]
             ELSE <<b>>

split_bbox_on_empty_rows(g, b) ==
    LET rs == RowSumSeq(g, b)
        cs == ColSumSeq(g, b)
    IN  IF HasZero(rs)
        THEN ExtendLinesOverRows(g, b, non_empty_runs(rs, 0, <<>>, <<>>), 1)
        ELSE IF HasZero(cs)
             THEN LET runs == non_empty_runs(cs, 0, <<>>, <<>>)
                  IN  [ k \in 1 .. Len(runs) |-> ColRunBox(b, runs[k]) ]
             ELSE <<b>>

\* ------------------------------------------------------------ flood fill
\* flood(r, c) of flood_fill_islands: st is the stack (popped at its end),
\* visited the set of visited indices, mm = <<min_r, max_r, min_c, max_c>>.
\* Returns the extent together with the updated visited array.
\* variant: the fill also follows the four diagonal neighbours
RECURSIVE flood_Diagonal(_, _, _, _)
flood_Diagonal(g, st, visited, mm) ==
    IF st = <<>>
    THEN [box |-> mm, visited |-> visited]
    ELSE LET top  == st[Len(st)]
             rest == SubSeq(st, 1, Len(st) - 1)
             i    == top[1]
             j    == top[2]
         IN  IF i < 0 \/ i >= g.R \/ j < 0 \/ j >= g.C
             THEN flood_Diagonal(g, rest, visited, mm)
             ELSE IF top \in visited \/ ~g.a[top]
                  THEN flood_Diagonal(g, rest, visited, mm)
                  ELSE flood_Diagonal(g,
                             rest \o << <<i + 1, j>>, <<i - 1, j>>, <<i, j + 1>>, <<i, j - 1>>,
                                        <<i + 1, j + 1>>, <<i - 1, j - 1>>, <<i - 1, j + 1>>, <<i + 1, j - 1>> >>,
                             visited \cup {top},
                             <<Min(mm[1], i), Max(mm[2], i), Min(mm[3], j), Max(mm[4], j)>>)

\* variant: the fill also steps over one cell to the row two below
RECURSIVE flood_Leap(_, _, _, _)
flood_Leap(g, st, visited, mm) ==
    IF st = <<>>
    THEN [box |-> mm, visited |-> visited]
    ELSE LET top  == st[Len(st)]
             rest == SubSeq(st, 1, Len(st) - 1)
             i    == top[1]
             j    == top[2]
         IN  IF i < 0 \/ i >= g.R \/ j < 0 \/ j >= g.C
             THEN flood_Leap(g, rest, visited, mm)
             ELSE IF top \in visited \/ ~g.a[top]
                  THEN flood_Leap(g, rest, visited, mm)
                  ELSE flood_Leap(g,
                             rest \o << <<i + 1, j>>, <<i - 1, j>>, <<i, j + 1>>, <<i, j - 1>>, <<i + 2, j>> >>,
                             visited \cup {top},
                             <<Min(mm[1], i), Max(mm[2], i), Min(mm[3], j), Max(mm[4], j)>>)

RECURSIVE flood(_, _, _, _)
flood(g, st, visited, mm) ==
    IF st = <<>>
    THEN [box |-> mm, visited |-> visited]
    ELSE LET top  == st[Len(st)]
             rest == SubSeq(st, 1, Len(st) - 1)
             i    == top[1]
             j    == top[2]
         IN  IF i < 0 \/ i >= g.R \/ j < 0 \/ j >= g.C
             THEN flood(g, rest, visited, mm)
             ELSE IF top \in visited \/ ~g.a[top]
                  THEN flood(g, rest, visited, mm)
                  ELSE flood(g,
                             rest \o << <<i + 1, j>>, <<i - 1, j>>, <<i, j + 1>>, <<i, j - 1>> >>,
                             visited \cup {top},
                             <<Min(mm[1], i), Max(mm[2], i), Min(mm[3], j), Max(mm[4], j)>>)

\* the double loop of flood_fill_islands; k = i * C + j walks the grid
\* row-major, isl is the list of islands appended so far
RECURSIVE scan_islands(_, _, _, _, _, _)
scan_islands(g, k, visited, isl, mr, mc) ==
    IF k >= g.R * g.C THEN isl
    ELSE LET i == k \div g.C
             j == k % g.C
         IN  IF g.a[<<i, j>>] /\ <<i, j>> \notin visited
             THEN LET f      == flood(g, << <<i, j>> >>, visited, <<i, i, j, j>>)
                      height == f.box[2] - f.box[1] + 1
                      width  == f.box[4] - f.box[3] + 1
                  IN  scan_islands(g, k + 1, f.visited,
                                   IF height >= mr /\ width >= mc
                                   THEN Append(isl, <<f.box[1] + 1, f.box[2] + 1, f.box[3] + 1, f.box[4] + 1>>)
                                   ELSE isl,
                                   mr, mc)
             ELSE scan_islands(g, k + 1, visited, isl, mr, mc)

flood_fill_islands(g, mr, mc) == scan_islands(g, 0, {}, <<>>, mr, mc)

\* ------------------------------------------------- strings and values
\* A string is a sequence of one-character strings.  A cell value is
\* NoneV, a string StrV(s) or an integer IntV(n).
UpperLetters ==
    << "A", "B", "C", "D", "E", "F", "G", "H", "I", "J", "K", "L", "M",
       "N", "O", "P", "Q", "R", "S", "T", "U", "V", "W", "X", "Y", "Z" >>

LowerLetters ==
    << "a", "b", "c", "d", "e", "f", "g", "h", "i", "j", "k", "l", "m",
       "n", "o", "p", "q", "r", "s", "t", "u", "v", "w", "x", "y", "z" >>

DigitChars == << "0", "1", "2", "3", "4", "5", "6", "7", "8", "9" >>

\* ch.isalpha()
isalpha(ch) == \E k \in 1 .. 26 : UpperLetters[k] = ch \/ LowerLetters[k] = ch

\* ch.isdigit()
isdigit(ch) == \E k \in 1 .. 10 : DigitChars[k] = ch

\* ch.isspace()
isspace(ch) == ch = " "

NoneV == [t |-> "none"]
StrV(s) == [t |-> "str", s |-> s]
IntV(n) == [t |-> "int", n |-> n]

\* str(n) for a natural number
RECURSIVE IntToStr(_)
IntToStr(n) ==
    IF n < 10 THEN << DigitChars[n + 1] >>
    ELSE IntToStr(n \div 10) \o << DigitChars[(n % 10) + 1] >>

\* str(v) for a cell value that is not None
str(v) == IF v.t = "str" THEN v.s ELSE IntToStr(v.n)

\* s.strip()
RECURSIVE lstrip(_)
lstrip(s) == IF s # <<>> /\ isspace(s[1]) THEN lstrip(Tail(s)) ELSE s

RECURSIVE rstrip(_)
rstrip(s) == IF s # <<>> /\ isspace(s[Len(s)]) THEN rstrip(SubSeq(s, 1, Len(s) - 1)) ELSE s

strip(s) == rstrip(lstrip(s))

\* any(ch.isalpha() for ch in s)
looks_text(s) == \E k \in 1 .. Len(s) : isalpha(s[k])

\* s.startswith("[")
startswith_bracket(s) == s # <<>> /\ s[1] = "["

\* variant: the quotient is taken of n, not of n - 1
RECURSIVE get_column_letter_PlainQuotient(_)
get_column_letter_PlainQuotient(n) ==
    IF n = 0 THEN <<>>
    ELSE get_column_letter_PlainQuotient(n \div 26) \o << UpperLetters[((n - 1) % 26) + 1] >>

\* openpyxl.utils.get_column_letter: bijective base 26, A = 1
RECURSIVE get_column_letter(_)
get_column_letter(n) ==
    IF n = 0 THEN <<>>
    ELSE get_column_letter((n - 1) \div 26) \o << UpperLetters[((n - 1) % 26) + 1] >>

\* the 1-based position of a letter in the alphabet, case-insensitive
LetterOrd(ch) == CHOOSE k \in 1 .. 26 : UpperLetters[k] = ch \/ LowerLetters[k] = ch

\* openpyxl.utils.cell.column_index_from_string
RECURSIVE column_index_from_string(_)
column_index_from_string(col) ==
    IF col = <<>> THEN 0
    ELSE 26 * column_index_from_string(SubSeq(col, 1, Len(col) - 1)) + LetterOrd(col[Len(col)])

\* int(digits)
RECURSIVE StrToInt(_)
StrToInt(ds) ==
    IF ds = <<>> THEN 0
    ELSE 10 * StrToInt(SubSeq(ds, 1, Len(ds) - 1))
         + ((CHOOSE k \in 1 .. 10 : DigitChars[k] = ds[Len(ds)]) - 1)

\* the number of leading characters of s that belong to the class cls
\* ("alpha", "digit", or "ref": anything but the ":" of a range)
InClass(ch, cls) ==
    IF cls = "alpha" THEN isalpha(ch)
    ELSE IF cls = "digit" THEN isdigit(ch)
    ELSE ch # ":"

PrefixLen(s, cls) ==
    IF \A k \in 1 .. Len(s) : InClass(s[k], cls) THEN Len(s)
    ELSE (CHOOSE k \in 1 .. Len(s) : ~InClass(s[k], cls) /\ \A j \in 1 .. k - 1 : InClass(s[j], cls)) - 1

\* cell_ref.replace('$', '')
is_not_dollar(ch) == ch # "$"
remove_dollar(s) == SelectSeq(s, is_not_dollar)

\* openpyxl.utils.cell.coordinate_from_string: one to three letters followed
\* by digits and nothing else, with an optional "$" before either part; a
\* row of 0 is rejected.  ok = FALSE stands for the exception.
coordinate_from_string(s) ==
    LET s1 == IF s # <<>> /\ s[1] = "$" THEN Tail(s) ELSE s
        n  == PrefixLen(s1, "alpha")
        s2 == SubSeq(s1, n + 1, Len(s1))
        s3 == IF s2 # <<>> /\ s2[1] = "$" THEN Tail(s2) ELSE s2
        m  == PrefixLen(s3, "digit")
    IN  IF n >= 1 /\ n <= 3 /\ m >= 1 /\ m = Len(s3) /\ StrToInt(s3) # 0
        THEN [ok |-> TRUE, col |-> SubSeq(s1, 1, n), row |-> StrToInt(s3)]
        ELSE [ok |-> FALSE]

\* (min_col, min_row, max_col, max_row) of the parsed corners a and b
boundaries_of(a, b) ==
    << column_index_from_string(a.col), a.row, column_index_from_string(b.col), b.row >>

\* the range reference split at position k of its ":" (k > Len(ref): none)
boundaries_at(ref, k) ==
    IF k > Len(ref)
    THEN boundaries_of(coordinate_from_string(ref), coordinate_from_string(ref))
    ELSE boundaries_of(coordinate_from_string(SubSeq(ref, 1, k - 1)),
                       coordinate_from_string(SubSeq(ref, k + 1, Len(ref))))

\* openpyxl.utils.range_boundaries for a "A1:B2" or "A1" reference:
\* (min_col, min_row, max_col, max_row)
range_boundaries(ref) == boundaries_at(ref, PrefixLen(ref, "ref") + 1)

\* bbox_to_range_str
bbox_to_range_str(r1, r2, c1, c2) ==
    get_column_letter(c1) \o IntToStr(r1) \o << ":" >> \o get_column_letter(c2) \o IntToStr(r2)

\* ------------------------------------------------------------ worksheet
\* A worksheet is a record
\*   title       the sheet name
\*   R, C        len(list(ws.iter_rows())) and ws.max_column
\*   val         the cell values, indexed by the 1-based <<row, col>>
\*   tables      ws._tables.values(): records [ref, displayName, tableColumns]
\*   hidden_cols the columns whose column dimension is hidden
\*   hidden_rows the rows whose row dimension is hidden
\*   merged      ws.merged_cells.ranges as bounds <<min_col, min_row, max_col, max_row>>

\* ws.cell(row=row, column=col).value
cell_value(ws, row, col) ==
    IF <<row, col>> \in DOMAIN ws.val THEN ws.val[<<row, col>>] ELSE NoneV

\* the tuple appended at line 72, as a record
region_of(t, rb) ==
    [r1 |-> rb[2], c1 |-> rb[1], r2 |-> rb[4], c2 |-> rb[3], name |-> t.displayName, t |-> t]

get_explicit_table_regions(ws) ==
    [ k \in 1 .. Len(ws.tables) |-> region_of(ws.tables[k], range_boundaries(ws.tables[k].ref)) ]

\* variant: the slices stop one row and one column short
explicit_mask_ShortSlice(regions, i, j) ==
    \E k \in 1 .. Len(regions) :
        /\ regions[k].r1 - 1 <= i /\ i < regions[k].r2 - 1
        /\ regions[k].c1 - 1 <= j /\ j < regions[k].c2 - 1

\* explicit_mask[i, j] after the slice assignments of lines 92-93
explicit_mask(regions, i, j) ==
    \E k \in 1 .. Len(regions) :
        /\ regions[k].r1 - 1 <= i /\ i < regions[k].r2
        /\ regions[k].c1 - 1 <= j /\ j < regions[k].c2

\* the column-dimension test of lines 96-98 for 0-based column j
col_hidden(ws, j) == (j + 1) \in ws.hidden_cols

build_grid_excluding_explicit(ws, explicit_regions) ==
    [ R |-> ws.R,
      C |-> ws.C,
      a |-> [ c \in Cells(ws.R, ws.C) |->
                /\ ~col_hidden(ws, c[2])
                /\ cell_value(ws, c[1] + 1, c[2] + 1) # NoneV
                /\ ~explicit_mask(explicit_regions, c[1], c[2]) ] ]

get_merged_cell_value(ws, row, col) ==
    LET covering == { m \in ws.merged : m[2] <= row /\ row <= m[4] /\ m[1] <= col /\ col <= m[3] }
    IN  IF covering # {}
        THEN LET m == CHOOSE m \in covering : TRUE IN cell_value(ws, m[2], m[1])
        ELSE cell_value(ws, row, col)

\* "" if v is None else str(v).strip()
cell_text(v) == IF v = NoneV THEN <<>> ELSE strip(str(v))

\* the rows matrix of detect_header_and_body
region_rows(ws, r1, r2, c1, c2) ==
    [ i \in 1 .. (r2 - r1 + 1) |->
        [ j \in 1 .. (c2 - c1 + 1) |-> cell_text(get_merged_cell_value(ws, r1 + i - 1, c1 + j - 1)) ] ]

\* sum(1 for cell in row if cell and looks_text(cell))
text_count(row) == Cardinality({ k \in 1 .. Len(row) : row[k] # <<>> /\ looks_text(row[k]) })

\* sum(1 for cell in next_row if cell and not looks_text(cell))
numericish(row) == Cardinality({ k \in 1 .. Len(row) : row[k] # <<>> /\ ~looks_text(row[k]) })

\* variant: the row after the candidate is not looked at
RECURSIVE detect_from_NoNextRowTest(_, _)
detect_from_NoNextRowTest(rows, idx) ==
    IF idx >= Len(rows) - 1
    THEN [header |-> rows[1], body |-> SubSeq(rows, 2, Len(rows))]
    ELSE IF 2 * text_count(rows[idx + 1]) >= Len(rows[idx + 1])
         THEN [header |-> rows[idx + 1], body |-> SubSeq(rows, idx + 2, Len(rows))]
         ELSE detect_from_NoNextRowTest(rows, idx + 1)

\* the loop of lines 321-327 from index idx (0-based) on
RECURSIVE detect_from(_, _)
detect_from(rows, idx) ==
    IF idx >= Len(rows) - 1
    THEN [header |-> rows[1], body |-> SubSeq(rows, 2, Len(rows))]
    ELSE IF /\ 2 * text_count(rows[idx + 1]) >= Len(rows[idx + 1])
            /\ 3 * numericish(rows[idx + 2]) >= Len(rows[idx + 2])
         THEN [header |-> rows[idx + 1], body |-> SubSeq(rows, idx + 2, Len(rows))]
         ELSE detect_from(rows, idx + 1)

detect_header_and_body(ws, r1, r2, c1, c2) == detect_from(region_rows(ws, r1, r2, c1, c2), 0)

\* the test of lines 364 and 380
rejected_header(s) == s = <<>> \/ startswith_bracket(s) \/ ~looks_text(s)

\* the declared column names that survive lines 359-366
declared_headers(t) ==
    LET stripped == [ k \in 1 .. Len(t.tableColumns) |-> strip(t.tableColumns[k]) ]
    IN  SelectSeq(stripped, LAMBDA x : ~rejected_header(x))

\* the first-row fallback of lines 372-383
first_row_headers(ws, r1, c1, c2) ==
    LET cand == [ k \in 1 .. (c2 - c1 + 1) |->
                    [ hidden |-> (c1 + k - 1) \in ws.hidden_cols,
                      s      |-> cell_text(get_merged_cell_value(ws, r1, c1 + k - 1)) ] ]
        kept == SelectSeq(cand, LAMBDA x : ~x.hidden /\ ~rejected_header(x.s))
    IN  [ k \in 1 .. Len(kept) |-> kept[k].s ]

sanitize_table_headers_from_tableobj(ws, t, r1, c1, r2, c2) ==
    IF t.tableColumns # <<>> /\ declared_headers(t) # <<>>
    THEN declared_headers(t)
    ELSE first_row_headers(ws, r1, c1, c2)

\* f"Table {table_counter}"
table_n(n) == << "T", "a", "b", "l", "e", " " >> \o IntToStr(n)

\* the loop of lines 420-423
RECURSIVE split_all(_, _, _)
split_all(g, isl, k) ==
    IF k > Len(isl) THEN <<>>
    ELSE split_bbox_on_empty_lines(g, isl[k]) \o split_all(g, isl, k + 1)

\* [h for h in header if h and not str(h).startswith("[")]
filtered_header(header) == SelectSeq(header, LAMBDA h : h # <<>> /\ ~startswith_bracket(h))

\* variant: the table's own name is ignored, every entry is "Table n"
explicit_entry_Numbered(ws, e, n) ==
    [ name       |-> e.name,
      table_name |-> table_n(n),
      range      |-> bbox_to_range_str(e.r1, e.r2, e.c1, e.c2),
      headers    |-> sanitize_table_headers_from_tableobj(ws, e.t, e.r1, e.c1, e.r2, e.c2),
      r1 |-> e.r1, c1 |-> e.c1, r2 |-> e.r2, c2 |-> e.c2 ]

\* the entry appended at lines 406-414 for the explicit region e, reached
\* with table_counter = n
explicit_entry(ws, e, n) ==
    [ name       |-> e.name,
      table_name |-> IF e.name # <<>> THEN e.name ELSE table_n(n),
      range      |-> bbox_to_range_str(e.r1, e.r2, e.c1, e.c2),
      headers    |-> sanitize_table_headers_from_tableobj(ws, e.t, e.r1, e.c1, e.r2, e.c2),
      r1 |-> e.r1, c1 |-> e.c1, r2 |-> e.r2, c2 |-> e.c2 ]

\* the entry appended at lines 427-434 for the box b = (r1, r2, c1, c2),
\* reached with table_counter = n
implicit_entry(ws, b, n) ==
    [ table_name |-> table_n(n),
      range      |-> bbox_to_range_str(b[1], b[2], b[3], b[4]),
      r1 |-> b[1], c1 |-> b[3], r2 |-> b[2], c2 |-> b[4],
      header     |-> filtered_header(detect_header_and_body(ws, b[1], b[2], b[3], b[4]).header) ]

\* lines 418-423: the islands of the grid, each split on its empty lines
implicit_boxes_of(g) == split_all(g, flood_fill_islands(g, 2, 2), 1)

\* variant: the counter starts again at 1 for the implicit tables
implicit_entries_Restart(ws, boxes, counted) ==
    [ k \in 1 .. Len(boxes) |-> implicit_entry(ws, boxes[k], k) ]

\* the implicit entries for the collected boxes, the counter continuing
\* after the explicit tables
implicit_entries(ws, boxes, counted) ==
    [ k \in 1 .. Len(boxes) |-> implicit_entry(ws, boxes[k], counted + k) ]

\* the worksheet loop body from line 404 on, explicit being the regions of
\* line 403
sheet_report_from(ws, explicit) ==
    [ explicit_tables |-> [ k \in 1 .. Len(explicit) |-> explicit_entry(ws, explicit[k], k) ],
      implicit_tables |->
          implicit_entries(ws, implicit_boxes_of(build_grid_excluding_explicit(ws, explicit)),
                           Len(explicit)) ]

\* the body of the worksheet loop of generate_table_report, lines 401-437
sheet_report(ws) == sheet_report_from(ws, get_explicit_table_regions(ws))

\* report = {ws.title: sheet_report for ws in wb.worksheets}
generate_table_report(workbook) ==
    [ title \in { workbook[k].title : k \in 1 .. Len(workbook) } |->
        sheet_report(workbook[CHOOSE k \in 1 .. Len(workbook) :
                                 /\ workbook[k].title = title
                                 /\ \A l \in k + 1 .. Len(workbook) : workbook[l].title # title]) ]

\* --------------------------------------------------------- header lookup
\* table_info.get(sheet_name, {}) with the .get defaults of lines 482, 493
tables_of(info, name) ==
    IF name \in DOMAIN info THEN info[name]
    ELSE [explicit_tables |-> <<>>, implicit_tables |-> <<>>]

\* variant: only the column range of the region is tested
has_header_at_NoRowTest(t, headers, row_idx, col_idx) ==
    /\ t.c1 <= col_idx /\ col_idx <= t.c2
    /\ 0 <= col_idx - t.c1 /\ col_idx - t.c1 < Len(headers)

\* the test of lines 488-491 / 499-502 for one region and its header list
has_header_at(t, headers, row_idx, col_idx) ==
    /\ t.r1 <= row_idx /\ row_idx <= t.r2
    /\ t.c1 <= col_idx /\ col_idx <= t.c2
    /\ 0 <= col_idx - t.c1 /\ col_idx - t.c1 < Len(headers)

\* the header list of a region of the given kind: "headers" of an explicit
\* table, "header" of an implicit one
headers_of(t, kind) == IF kind = "explicit" THEN t.headers ELSE t.header

\* the first region of seq that the loop returns from, 0 when it runs out
first_index(seq, kind, row_idx, col_idx) ==
    IF \E k \in 1 .. Len(seq) : has_header_at(seq[k], headers_of(seq[k], kind), row_idx, col_idx)
    THEN CHOOSE k \in 1 .. Len(seq) :
            /\ has_header_at(seq[k], headers_of(seq[k], kind), row_idx, col_idx)
            /\ \A j \in 1 .. k - 1 : ~has_header_at(seq[j], headers_of(seq[j], kind), row_idx, col_idx)
    ELSE 0

\* the return statement reached for the parsed cell: the kind and index of
\* the region (lines 492, 503), "none" for line 504; e and i are the first
\* explicit and the first implicit region the loops return from
site_of(tables, col_idx, e, i) ==
    IF e # 0
    THEN [kind |-> "explicit", idx |-> e, pos |-> col_idx - tables.explicit_tables[e].c1]
    ELSE IF i # 0
         THEN [kind |-> "implicit", idx |-> i, pos |-> col_idx - tables.implicit_tables[i].c1]
         ELSE [kind |-> "none", idx |-> 0, pos |-> 0]

scan_tables(tables, row_idx, col_idx) ==
    site_of(tables, col_idx,
            first_index(tables.explicit_tables, "explicit", row_idx, col_idx),
            first_index(tables.implicit_tables, "implicit", row_idx, col_idx))

\* p is the parsed reference; ok = FALSE is the exception of lines 474-479
site_for(p, tables) ==
    IF ~p.ok THEN [kind |-> "none", idx |-> 0, pos |-> 0]
    ELSE scan_tables(tables, p.row, column_index_from_string(p.col))

\* the return statement find_header_for_cell leaves through
find_header_site(name, ref, info) ==
    site_for(coordinate_from_string(remove_dollar(ref)), tables_of(info, name))

\* the value returned from site st: StrV(header) or NoneV
header_at(tables, st) ==
    IF st.kind = "explicit"
    THEN StrV(tables.explicit_tables[st.idx].headers[st.pos + 1])
    ELSE IF st.kind = "implicit"
         THEN StrV(tables.implicit_tables[st.idx].header[st.pos + 1])
         ELSE NoneV

find_header_for_cell(name, ref, info) ==
    header_at(tables_of(info, name), find_header_site(name, ref, info))

\* ---------------------------------------------------- formula annotation
\* the characters of the regular-expression class [A-Za-z0-9_]
is_word(ch) == isalpha(ch) \/ isdigit(ch) \/ ch = "_"

\* the length of the match of \$?[A-Za-z]{1,3}\$?\d+ that begins at
\* position i of s after d1 "$" signs and L letters, the second "$" being
\* at position j when d2 = 1; 0 when there is no match
ref_match_tail(s, d1, L, d2, j) ==
    IF L >= 1 /\ L <= 3 /\ PrefixLen(SubSeq(s, j + d2, Len(s)), "digit") >= 1
    THEN d1 + L + d2 + PrefixLen(SubSeq(s, j + d2, Len(s)), "digit")
    ELSE 0

ref_match_letters(s, i, d1, L) ==
    ref_match_tail(s, d1, L, IF i + d1 + L <= Len(s) /\ s[i + d1 + L] = "$" THEN 1 ELSE 0, i + d1 + L)

ref_match_from(s, i, d1) == ref_match_letters(s, i, d1, PrefixLen(SubSeq(s, i + d1, Len(s)), "alpha"))

\* the pattern of line 458 matched at position i of s: the length of the
\* match, 0 when it does not match there
ref_match_len(s, i) == ref_match_from(s, i, IF s[i] = "$" THEN 1 ELSE 0)

\* re.findall(pattern, formula) from position i on: the non-overlapping
\* matches, leftmost first
RECURSIVE findall_refs(_, _)
findall_refs(s, i) ==
    IF i > Len(s) THEN <<>>
    ELSE IF ref_match_len(s, i) > 0
         THEN << SubSeq(s, i, i + ref_match_len(s, i) - 1) >> \o findall_refs(s, i + ref_match_len(s, i))
         ELSE findall_refs(s, i + 1)

extract_references(fml) == findall_refs(fml, 1)

\* (?<![A-Za-z0-9_]) ref (?![A-Za-z0-9_]) matches at position i of s
sub_matches(ref, s, i) ==
    /\ i + Len(ref) - 1 <= Len(s)
    /\ SubSeq(s, i, i + Len(ref) - 1) = ref
    /\ i = 1 \/ ~is_word(s[i - 1])
    /\ i + Len(ref) > Len(s) \/ ~is_word(s[i + Len(ref)])

\* re.sub(pattern, repl, s) of line 525 from position i on; repl holds no
\* backslash, so the replacement template is taken literally
RECURSIVE re_sub(_, _, _, _)
re_sub(ref, repl, s, i) ==
    IF i > Len(s) THEN <<>>
    ELSE IF sub_matches(ref, s, i)
         THEN repl \o re_sub(ref, repl, s, i + Len(ref))
         ELSE << s[i] >> \o re_sub(ref, repl, s, i + 1)

\* f"[{header}]"
bracketed(header) == << "[" >> \o header \o << "]" >>

\* `if header:` of line 524
truthy(header) == header # NoneV /\ header.s # <<>>

\* variant: a reference without a header is removed from the text
annotate_step_DropUnresolved(annotated, ref, header) ==
    IF truthy(header) THEN re_sub(ref, bracketed(header.s), annotated, 1)
    ELSE re_sub(ref, <<>>, annotated, 1)

\* one round of the loop of lines 522-525 for a reference whose lookup gave header
annotate_step(annotated, ref, header) ==
    IF truthy(header) THEN re_sub(ref, bracketed(header.s), annotated, 1) ELSE annotated

\* the loop of lines 522-525 over refs_sorted from index k on
RECURSIVE annotate_from(_, _, _, _, _)
annotate_from(annotated, order, k, name, info) ==
    IF k > Len(order) THEN annotated
    ELSE annotate_from(annotate_step(annotated, order[k], find_header_for_cell(name, order[k], info)),
                       order, k + 1, name, info)

\* the elements of a sequence
Range(seq) == { seq[k] : k \in 1 .. Len(seq) }

\* the results sorted(refs, key=len, reverse=True) can have for the set refs:
\* the sort is stable and the iteration order of a set of strings is not
\* fixed, so references of equal length come in any order
sorted_by_len(refs) ==
    { o \in [1 .. Cardinality(refs) -> refs] :
        /\ \A a, b \in 1 .. Cardinality(refs) : a # b => o[a] # o[b]
        /\ \A a \in 1 .. Cardinality(refs) - 1 : Len(o[a]) >= Len(o[a + 1]) }

\* annotate_formula, order being the refs_sorted line 521 produced
annotate_formula(fml, order, name, info) == annotate_from(fml, order, 1, name, info)

\* ------------------------------------------------------- dependencies
\* variant: a repeated element moves to the end (order of last occurrence)
RECURSIVE dedup_from_LastSeen(_, _, _)
dedup_from_LastSeen(seq, k, acc) ==
    IF k > Len(seq) THEN acc
    ELSE dedup_from_LastSeen(seq, k + 1, Append(SelectSeq(acc, LAMBDA x : x # seq[k]), seq[k]))

\* list(dict.fromkeys(seq)): the first occurrence of every element, in order
RECURSIVE dedup_from(_, _, _)
dedup_from(seq, k, acc) ==
    IF k > Len(seq) THEN acc
    ELSE dedup_from(seq, k + 1, IF seq[k] \in Range(acc) THEN acc ELSE Append(acc, seq[k]))

dict_fromkeys(seq) == dedup_from(seq, 1, <<>>)

\* the pattern [A-Za-z]{1,3}\$?\d+:[A-Za-z]{1,3}\$?\d+ of line 607 matched
\* at position i of d, its first half being a characters long: the length
\* of the match, 0 when it does not match there
range_match_halves(d, i, a) ==
    IF a > 0 /\ i + a <= Len(d) /\ d[i + a] = ":" /\ ref_match_from(d, i + a + 1, 0) > 0
    THEN a + 1 + ref_match_from(d, i + a + 1, 0)
    ELSE 0

range_match_len(d, i) == range_match_halves(d, i, ref_match_from(d, i, 0))

\* lines 607-608: m.group(1) of the leftmost match, d itself without a match
simple_dep(d) ==
    IF \E i \in 1 .. Len(d) : range_match_len(d, i) > 0
    THEN LET i == CHOOSE i \in 1 .. Len(d) :
                      range_match_len(d, i) > 0 /\ \A j \in 1 .. i - 1 : range_match_len(d, j) = 0
         IN  SubSeq(d, i, i + range_match_len(d, i) - 1)
    ELSE d

\* variant: without usable evaluator inputs the dependencies stay empty
dependencies_of_NoFallback(fml, model) ==
    IF model.loaded /\ model.has_cell /\ model.inputs # <<>>
    THEN dict_fromkeys([ k \in 1 .. Len(model.inputs) |-> simple_dep(model.inputs[k]) ])
    ELSE <<>>

\* lines 599-613.  model is [loaded, has_cell, inputs]: whether the library
\* loaded the workbook, whether excel_model.cells has the cell's address, and
\* list(cell_obj.inputs.keys())
dependencies_of(fml, model) ==
    IF model.loaded /\ model.has_cell /\ model.inputs # <<>>
    THEN dict_fromkeys([ k \in 1 .. Len(model.inputs) |-> simple_dep(model.inputs[k]) ])
    ELSE dict_fromkeys(extract_references(fml))

\* the record of lines 615-621 (without the cell address and the context)
formula_record(fml, order, name, info, model) ==
    [ formula          |-> fml,
      readable_formula |-> annotate_formula(fml, order, name, info),
      dependencies     |-> dependencies_of(fml, model) ]

\* no formula cell is being processed
FormulaIdle ==
    /\ formula = <<>>
    /\ excel_model = <<>>
    /\ refs_sorted = <<>>
    /\ record = <<>>

\* nothing else has run
RangeIdle ==
    /\ range_str = <<>>
    /\ table_regions = <<>>

DbIdle ==
    /\ job = <<>>
    /\ pool = <<>>
    /\ in_txn = <<>>
    /\ committed = <<>>

RunIdle ==
    /\ calls = <<>>
    /\ fill = <<>>
    /\ DbIdle

AuxIdle ==
    /\ detected = <<>>
    /\ RangeIdle
    /\ RunIdle

\* ----------------------------------------------------- geometry machine
\* The segmentation functions applied to an arbitrary grid.
GeomInit ==
    /\ pc = "grid"
    /\ \E d \in Shapes(MaxGridCells) : grid \in Grids(d[1], d[2])
    /\ bbox = <<>>
    /\ parts = <<>>
    /\ min_rows = 0
    /\ min_cols = 0
    /\ islands = <<>>
    /\ implicit_boxes = <<>>
    /\ FormulaIdle
    /\ AuxIdle
    /\ wb = <<>>
    /\ grids = <<>>
    /\ table_info = <<>>
    /\ sheet_name = ""
    /\ cell_ref = <<>>
    /\ cell_rc = <<>>
    /\ site = <<>>
    /\ result = NoneV

Split ==
    /\ pc = "grid"
    /\ \E b \in Boxes(grid.R, grid.C) :
          /\ bbox' = b
          /\ parts' = split_bbox_on_empty_lines(grid, b)
    /\ pc' = "split"
    /\ UNCHANGED <<grid, min_rows, min_cols, islands, implicit_boxes, pipeVars, fmlVars, auxVars>>

FloodFill ==
    /\ pc = "grid"
    /\ \E mr \in 1 .. 2, mc \in 1 .. 2 :
          /\ min_rows' = mr
          /\ min_cols' = mc
          /\ islands' = flood_fill_islands(grid, mr, mc)
    /\ pc' = "islands"
    /\ UNCHANGED <<grid, bbox, parts, implicit_boxes, pipeVars, fmlVars, auxVars>>

\* lines 418-423 of generate_table_report: the islands of the grid under
\* the default minimum size, each split on its empty lines
ImplicitBoxes ==
    /\ pc = "grid"
    /\ min_rows' = 2
    /\ min_cols' = 2
    /\ islands' = flood_fill_islands(grid, 2, 2)
    /\ implicit_boxes' = split_all(grid, flood_fill_islands(grid, 2, 2), 1)
    /\ pc' = "boxes"
    /\ UNCHANGED <<grid, bbox, parts, pipeVars, fmlVars, auxVars>>

GeomNext == Split \/ FloodFill \/ ImplicitBoxes

GeomSpec == GeomInit /\ [][GeomNext]_vars

\* ----------------------------------------------------- pipeline machine
\* generate_table_report on a workbook, then find_header_for_cell on its
\* report (the calls annotate_formula makes).

Str1(ch) == StrV(<< ch >>)

\* the cell values sheets are filled with: empty, a text, a number, a
\* bracket-prefixed text and a blank text
CellValues == { NoneV, Str1("a"), IntV(7), StrV(<< "[", "a" >>), Str1(" ") }
PlainValues == { NoneV, Str1("a"), IntV(7) }

SheetCells(R, C) == (1 .. R) \X (1 .. C)

\* every rectangle of an R x C sheet as <<r1, c1, r2, c2>>
SheetRects(R, C) ==
    { q \in (1 .. R) \X (1 .. C) \X (1 .. R) \X (1 .. C) : q[1] <= q[3] /\ q[2] <= q[4] }

Sheet(title, R, C, val, tables, hidden, hidden_rows, merged) ==
    [ title |-> title, R |-> R, C |-> C, val |-> val, tables |-> tables,
      hidden_cols |-> hidden, hidden_rows |-> hidden_rows, merged |-> merged ]

\* a declared table over rectangle q; kind selects its metadata:
\*   "bare"   no display name, no declared column names
\*   "named"  display name S, every column declared as "b"
\*   "mixed"  display name S, first column declared as "7", the others as "b"
TableOver(q, kind) ==
    [ ref |-> bbox_to_range_str(q[1], q[3], q[2], q[4]),
      displayName |-> IF kind = "bare" THEN <<>> ELSE << "S" >>,
      tableColumns |->
          IF kind = "bare" THEN <<>>
          ELSE [ k \in 1 .. (q[4] - q[2] + 1) |->
                   IF kind = "mixed" /\ k = 1 THEN << "7" >> ELSE << "b" >> ] ]

\* the second sheet of every workbook: a 2 x 2 block under headers x, y
Sheet2 ==
    [ title |-> "Sheet2", R |-> 2, C |-> 2,
      val |-> [ c \in (1 .. 2) \X (1 .. 2) |->
                  IF c = <<1, 1>> THEN Str1("x") ELSE IF c = <<1, 2>> THEN Str1("y") ELSE IntV(c[2]) ],
      tables |-> <<>>, hidden_cols |-> {}, hidden_rows |-> {}, merged |-> {} ]

\* m = <<min_col, min_row, max_col, max_row>> covers cell c
Covers(m, c) == m[2] <= c[1] /\ c[1] <= m[4] /\ m[1] <= c[2] /\ c[2] <= m[3]

\* a workbook is << Sheet1, Sheet2 >> where Sheet1 has at most MaxSheetCells
\* cells and is one of
\*   a sheet without tables, hidden columns or merges, over all cell values;
\*   a sheet with one declared table;
\*   a sheet with one hidden column;
\*   a sheet with one hidden row;
\*   a sheet with one merged range of at least two cells, of which only the
\*     anchor (top-left) cell holds a value
IsWorkbook(w) ==
    \E d \in Shapes(MaxSheetCells) :
        \/ \E v \in [SheetCells(d[1], d[2]) -> CellValues] :
              w = << Sheet("Sheet1", d[1], d[2], v, <<>>, {}, {}, {}), Sheet2 >>
        \/ \E v \in [SheetCells(d[1], d[2]) -> PlainValues], q \in SheetRects(d[1], d[2]),
              kind \in {"bare", "named", "mixed"} :
              w = << Sheet("Sheet1", d[1], d[2], v, << TableOver(q, kind) >>, {}, {}, {}), Sheet2 >>
        \/ \E v \in [SheetCells(d[1], d[2]) -> PlainValues], c \in 1 .. d[2] :
              w = << Sheet("Sheet1", d[1], d[2], v, <<>>, {c}, {}, {}), Sheet2 >>
        \/ \E v \in [SheetCells(d[1], d[2]) -> PlainValues], r \in 1 .. d[1] :
              w = << Sheet("Sheet1", d[1], d[2], v, <<>>, {}, {r}, {}), Sheet2 >>
        \/ \E v \in [SheetCells(d[1], d[2]) -> PlainValues], q \in SheetRects(d[1], d[2]) :
              /\ q[1] < q[3] \/ q[2] < q[4]
              /\ \A c \in SheetCells(d[1], d[2]) :
                    (Covers(<<q[2], q[1], q[4], q[3]>>, c) /\ c # <<q[1], q[2]>>) => v[c] = NoneV
              /\ w = << Sheet("Sheet1", d[1], d[2], v, <<>>, {}, {}, { <<q[2], q[1], q[4], q[3]>> }), Sheet2 >>

PipeInit ==
    /\ pc = "loaded"
    /\ IsWorkbook(wb)
    /\ grids = <<>>
    /\ table_info = <<>>
    /\ sheet_name = ""
    /\ cell_ref = <<>>
    /\ cell_rc = <<>>
    /\ site = <<>>
    /\ result = NoneV
    /\ grid = <<>>
    /\ bbox = <<>>
    /\ parts = <<>>
    /\ min_rows = 0
    /\ min_cols = 0
    /\ islands = <<>>
    /\ implicit_boxes = <<>>
    /\ FormulaIdle
    /\ AuxIdle

GenerateTableReport ==
    /\ pc = "loaded"
    /\ table_info' = generate_table_report(wb)
    /\ grids' = [ k \in 1 .. Len(wb) |->
                    build_grid_excluding_explicit(wb[k], get_explicit_table_regions(wb[k])) ]
    /\ pc' = "reported"
    /\ UNCHANGED <<wb, sheet_name, cell_ref, cell_rc, site, result, geomVars, fmlVars, auxVars>>

\* the text of a reference to <<row, col>>, plain or with "$" signs
RefText(rc, dollars) ==
    IF dollars
    THEN << "$" >> \o get_column_letter(rc[2]) \o << "$" >> \o IntToStr(rc[1])
    ELSE get_column_letter(rc[2]) \o IntToStr(rc[1])

\* the calls made on workbook w: every cell of Sheet1, the first cell below
\* it and the first cell to its right; two cells of Sheet2, written with and
\* without "$"; a cell of a sheet the report lacks
LookupArgs(w) ==
    { <<"Sheet1", rc, FALSE>> :
        rc \in SheetCells(w[1].R, w[1].C) \cup { <<w[1].R + 1, 1>>, <<1, w[1].C + 1>> } }
    \cup { <<"Sheet2", rc, d>> : rc \in { <<1, 1>>, <<2, 2>> }, d \in BOOLEAN }
    \cup { <<"Sheet3", <<1, 1>>, FALSE>> }

FindHeaderForCell ==
    /\ pc = "reported"
    /\ \E arg \in LookupArgs(wb) :
          /\ sheet_name' = arg[1]
          /\ cell_rc' = arg[2]
          /\ cell_ref' = RefText(arg[2], arg[3])
          /\ site' = find_header_site(arg[1], RefText(arg[2], arg[3]), table_info)
          /\ result' = find_header_for_cell(arg[1], RefText(arg[2], arg[3]), table_info)
    /\ pc' = "lookup"
    /\ UNCHANGED <<wb, grids, table_info, geomVars, fmlVars, auxVars>>

ReportNext == GenerateTableReport

ReportSpec == PipeInit /\ [][ReportNext]_vars

PipeNext == GenerateTableReport \/ FindHeaderForCell

PipeSpec == PipeInit /\ [][PipeNext]_vars

\* ------------------------------------------------------ formula machine
\* extract_formulas at one formula cell of sheet Sheet1: annotation against
\* a table report and collection of the dependencies.

\* the pieces formula texts are made of: references (one and two letters,
\* one and two digits, row zero), an operator, an underscore and references
\* after an operator (plain and with "$")
Pieces ==
    { << "A", "1" >>, << "A", "A", "1" >>, << "A", "1", "0" >>, << "B", "2" >>,
      << "A", "0" >>, << "+" >>, << "_" >>, << "+", "A", "1" >>, << "+", "B", "2" >>,
      << "+", "$", "A", "$", "1" >> }

\* the most pieces a formula text is made of
MaxPieces == 2

\* the texts made of at most n pieces
RECURSIVE Texts(_)
Texts(n) ==
    IF n = 0 THEN { <<>> }
    ELSE Texts(n - 1) \cup { t \o p : t \in Texts(n - 1), p \in Pieces }

Formulas == { << "=" >> \o t : t \in Texts(MaxPieces) }

\* an implicit region of a report
Region(r1, c1, r2, c2, n, header) ==
    [ table_name |-> table_n(n), range |-> bbox_to_range_str(r1, r2, c1, c2),
      r1 |-> r1, c1 |-> c1, r2 |-> r2, c2 |-> c2, header |-> header ]

\* the table reports read at lines 576-577:
\*   A1:A10 under the header Qty and AA1:AA1 under the header Total;
\*   A1:B10 under the headers B2 and a;
\*   no sheet at all
ReportQty ==
    [ s \in {"Sheet1"} |->
        [ explicit_tables |-> <<>>,
          implicit_tables |-> << Region(1, 1, 10, 1, 1, << << "Q", "t", "y" >> >>),
                                 Region(1, 27, 1, 27, 2, << << "T", "o", "t", "a", "l" >> >>) >> ] ]

ReportRef ==
    [ s \in {"Sheet1"} |->
        [ explicit_tables |-> <<>>,
          implicit_tables |-> << Region(1, 1, 10, 2, 1, << << "B", "2" >>, << "a" >> >>) >> ] ]

ReportNone == [ s \in {} |-> <<>> ]

Reports == { ReportQty, ReportRef, ReportNone }

\* the keys of cell_obj.inputs: ranges of two sheets, a single cell and a
\* range written with "$"
InputKeys ==
    { << "'", "[", "b", "]", "S", "1", "'", "!", "A", "1", ":", "B", "2" >>,
      << "'", "[", "b", "]", "S", "2", "'", "!", "A", "1", ":", "B", "2" >>,
      << "'", "[", "b", "]", "S", "1", "'", "!", "C", "3" >>,
      << "'", "[", "b", "]", "S", "1", "'", "!", "$", "A", "$", "1", ":", "$", "B", "$", "2" >> }

\* the most keys cell_obj.inputs has
MaxInputs == 3

\* the key lists of at most n distinct keys
InputLists(n) ==
    UNION { { o \in [1 .. k -> InputKeys] : \A a, b \in 1 .. k : a # b => o[a] # o[b] } : k \in 0 .. n }

NoModel == [loaded |-> FALSE, has_cell |-> FALSE, inputs |-> <<>>]
NoCell == [loaded |-> TRUE, has_cell |-> FALSE, inputs |-> <<>>]

\* a formula with a repeated reference
FormulaRepeat == << "=", "B", "2", "+", "A", "1", "+", "B", "2", "+", "A", "1" >>

FormulaInit ==
    /\ pc = "cell"
    /\ sheet_name = "Sheet1"
    /\ \/ /\ formula \in Formulas
          /\ table_info \in Reports
          /\ excel_model = NoModel
       \/ /\ formula \in Formulas
          /\ table_info = ReportNone
          /\ excel_model = NoCell
       \/ /\ formula \in { FormulaRepeat, << "=", "7" >> }
          /\ table_info = ReportQty
          /\ \E keys \in InputLists(MaxInputs) :
                excel_model = [loaded |-> TRUE, has_cell |-> TRUE, inputs |-> keys]
    /\ refs_sorted = <<>>
    /\ record = <<>>
    /\ AuxIdle
    /\ grid = <<>>
    /\ bbox = <<>>
    /\ parts = <<>>
    /\ min_rows = 0
    /\ min_cols = 0
    /\ islands = <<>>
    /\ implicit_boxes = <<>>
    /\ wb = <<>>
    /\ grids = <<>>
    /\ cell_ref = <<>>
    /\ cell_rc = <<>>
    /\ site = <<>>
    /\ result = NoneV

\* the body of the cell loop of extract_formulas, lines 594-621
ExtractFormulas ==
    /\ pc = "cell"
    /\ formula # <<>> /\ formula[1] = "="
    /\ \E order \in sorted_by_len(Range(extract_references(formula))) :
          /\ refs_sorted' = order
          /\ record' = formula_record(formula, order, sheet_name, table_info, excel_model)
    /\ pc' = "recorded"
    /\ UNCHANGED <<formula, excel_model, table_info, sheet_name, geomVars,
                   wb, grids, cell_ref, cell_rc, site, result, auxVars>>

FormulaNext == ExtractFormulas

FormulaSpec == FormulaInit /\ [][FormulaNext]_vars

\* ------------------------------------------------ header detection machine
\* detect_header_and_body on a region of a sheet.

\* the most cells the sheet has
MaxDetectCells == 6

\* the cell values: empty, a text, a number and a blank text
DetectValues == { NoneV, Str1("a"), IntV(7), Str1(" ") }

\* the regions looked at: the whole sheet, the sheet below its first row and
\* the sheet right of its first column
DetectBoxes(R, C) ==
    { << 1, R, 1, C >> }
    \cup (IF R > 1 THEN { << 2, R, 1, C >> } ELSE {})
    \cup (IF C > 1 THEN { << 1, R, 2, C >> } ELSE {})

DetectInit ==
    /\ pc = "region"
    /\ \E d \in Shapes(MaxDetectCells) :
          \/ \E v \in [SheetCells(d[1], d[2]) -> DetectValues], b \in DetectBoxes(d[1], d[2]) :
                /\ wb = << Sheet("Sheet1", d[1], d[2], v, <<>>, {}, {}, {}) >>
                /\ bbox = b
          \/ \E v \in [SheetCells(d[1], d[2]) -> DetectValues] :
                /\ d[1] >= 2
                /\ v[<<2, 1>>] = NoneV
                /\ wb = << Sheet("Sheet1", d[1], d[2], v, <<>>, {}, {}, { <<1, 1, 1, 2>> }) >>
                /\ bbox = << 1, d[1], 1, d[2] >>
    /\ detected = <<>>
    /\ RangeIdle
    /\ RunIdle
    /\ FormulaIdle
    /\ grid = <<>>
    /\ parts = <<>>
    /\ min_rows = 0
    /\ min_cols = 0
    /\ islands = <<>>
    /\ implicit_boxes = <<>>
    /\ grids = <<>>
    /\ table_info = <<>>
    /\ sheet_name = ""
    /\ cell_ref = <<>>
    /\ cell_rc = <<>>
    /\ site = <<>>
    /\ result = NoneV

DetectHeaderAndBody ==
    /\ pc = "region"
    /\ detected' = detect_header_and_body(wb[1], bbox[1], bbox[2], bbox[3], bbox[4])
    /\ pc' = "detected"
    /\ UNCHANGED <<geomVars, pipeVars, fmlVars, range_str, table_regions, runVars>>

DetectNext == DetectHeaderAndBody

DetectSpec == DetectInit /\ [][DetectNext]_vars

\* ------------------------------------------------------ numbering machine
\* generate_table_report on sheets large enough for several islands; a
\* sheet of one row or one column has no implicit table (min_rows = min_cols = 2).

\* the most cells the first sheet has
MaxNumberCells == 10

\* the declared tables of the first sheet: none, one over A1 without or with
\* a display name, or one over A1 followed by one over B1 without a name
NumberTables(C) ==
    { <<>>,
      << TableOver(<<1, 1, 1, 1>>, "bare") >>,
      << TableOver(<<1, 1, 1, 1>>, "named") >> }
    \cup (IF C >= 2
          THEN { << TableOver(<<1, 1, 1, 1>>, "bare"), TableOver(<<1, 2, 1, 2>>, "bare") >>,
                 << TableOver(<<1, 1, 1, 1>>, "named"), TableOver(<<1, 2, 1, 2>>, "bare") >> }
          ELSE {})

NumberInit ==
    /\ pc = "loaded"
    /\ \E d \in { s \in Shapes(MaxNumberCells) : s[1] >= 2 /\ s[2] >= 2 } :
          \E v \in [SheetCells(d[1], d[2]) -> { NoneV, IntV(7) }], ts \in NumberTables(d[2]) :
              wb = << Sheet("Sheet1", d[1], d[2], v, ts, {}, {}, {}), Sheet2 >>
    /\ grids = <<>>
    /\ table_info = <<>>
    /\ sheet_name = ""
    /\ cell_ref = <<>>
    /\ cell_rc = <<>>
    /\ site = <<>>
    /\ result = NoneV
    /\ grid = <<>>
    /\ bbox = <<>>
    /\ parts = <<>>
    /\ min_rows = 0
    /\ min_cols = 0
    /\ islands = <<>>
    /\ implicit_boxes = <<>>
    /\ FormulaIdle
    /\ AuxIdle

NumberSpec == NumberInit /\ [][ReportNext]_vars

\* ----------------------------------------------------- range machine
\* bbox_to_range_str on a box, and get_explicit_table_regions on a table
\* declared over the resulting range.

\* the rows are 1 .. MaxRow and two large ones
MaxRow == 12
SampleRows == (1 .. MaxRow) \cup { 100, 1048576 }

\* the columns: around the first letter, around the step from one to two
\* letters and from two to three, and the last column of three letters
SampleCols == { 1, 2, 3, 25, 26, 27, 28, 52, 53, 702, 703, 18278 }

RangeInit ==
    /\ pc = "box"
    /\ \E r1 \in SampleRows, r2 \in SampleRows, c1 \in SampleCols, c2 \in SampleCols :
          /\ r1 <= r2 /\ c1 <= c2
          /\ bbox = << r1, r2, c1, c2 >>
    /\ RangeIdle
    /\ RunIdle
    /\ detected = <<>>
    /\ FormulaIdle
    /\ grid = <<>>
    /\ parts = <<>>
    /\ min_rows = 0
    /\ min_cols = 0
    /\ islands = <<>>
    /\ implicit_boxes = <<>>
    /\ wb = <<>>
    /\ grids = <<>>
    /\ table_info = <<>>
    /\ sheet_name = ""
    /\ cell_ref = <<>>
    /\ cell_rc = <<>>
    /\ site = <<>>
    /\ result = NoneV

\* a worksheet whose only table is declared over ref
SheetWithTable(ref) ==
    Sheet("Sheet1", 1, 1, [ c \in SheetCells(1, 1) |-> NoneV ],
          << [ref |-> ref, displayName |-> <<>>, tableColumns |-> <<>>] >>, {}, {}, {})

BboxToRangeStr ==
    /\ pc = "box"
    /\ range_str' = bbox_to_range_str(bbox[1], bbox[2], bbox[3], bbox[4])
    /\ table_regions' = get_explicit_table_regions(SheetWithTable(bbox_to_range_str(bbox[1], bbox[2], bbox[3], bbox[4])))
    /\ pc' = "ranged"
    /\ UNCHANGED <<geomVars, pipeVars, fmlVars, detected, runVars>>

RangeNext == BboxToRangeStr

RangeSpec == RangeInit /\ [][RangeNext]_vars

\* ------------------------------------------------------ scenario machine
\* generate_table_report on a sheet with a declared table Sales over A1:C5
\* and, after three blank rows, a block of numbers under a text header row.

\* the most number rows the block has
MaxBlockRows == 1

SalesName == << "S", "a", "l", "e", "s" >>

\* the declared table; its columns are declared or not
SalesTable(declared) ==
    [ ref |-> << "A", "1", ":", "C", "5" >>,
      displayName |-> SalesName,
      tableColumns |-> IF declared THEN << << "x" >>, << "y" >>, << "z" >> >> ELSE <<>> ]

\* the cell values: top is the table's first row, the block has h number
\* rows under its header in row 9 and spans the columns cols
ScenarioValues(top, cols, h) ==
    [ c \in SheetCells(9 + h, 3) |->
        IF c[1] = 1 THEN top[c[2]]
        ELSE IF c[1] <= 5 THEN IntV(7)
        ELSE IF c[1] <= 8 \/ c[2] \notin cols THEN NoneV
        ELSE IF c[1] = 9 THEN Str1("a")
        ELSE IntV(7) ]

ScenarioInit ==
    /\ pc = "loaded"
    /\ \E top \in [1 .. 3 -> PlainValues], cols \in { {1, 2}, {2, 3}, {1, 2, 3} },
          h \in 1 .. MaxBlockRows, declared \in BOOLEAN :
          wb = << Sheet("Sheet1", 9 + h, 3, ScenarioValues(top, cols, h),
                        << SalesTable(declared) >>, {}, {}, {}) >>
    /\ grids = <<>>
    /\ table_info = <<>>
    /\ sheet_name = ""
    /\ cell_ref = <<>>
    /\ cell_rc = <<>>
    /\ site = <<>>
    /\ result = NoneV
    /\ grid = <<>>
    /\ bbox = <<>>
    /\ parts = <<>>
    /\ min_rows = 0
    /\ min_cols = 0
    /\ islands = <<>>
    /\ implicit_boxes = <<>>
    /\ FormulaIdle
    /\ AuxIdle

ScenarioSpec == ScenarioInit /\ [][ReportNext]_vars

\* ------------------------------------------------------- stepwise machine
\* The splitter and flood run one call and one loop iteration at a time.

\* the largest number of cells of a grid of the stepwise runs
MaxStepCells == 6

\* the calls a splitter call on box b makes for the boxes of its runs
split_calls(fn, b, boxes) ==
    [ k \in 1 .. Len(boxes) |-> [fn |-> fn, box |-> boxes[k], caller |-> b] ]

\* one call of split_bbox_on_empty_lines ("lines") or split_bbox_on_empty_rows
\* ("rows"): pending is the sequence of calls still to run, the running one
\* first, out the boxes returned so far
split_step(g, pending, out) ==
    LET b        == pending[1].box
        rowruns  == non_empty_runs(RowSumSeq(g, b), 0, <<>>, <<>>)
        colruns  == non_empty_runs(ColSumSeq(g, b), 0, <<>>, <<>>)
        rowboxes == [ k \in 1 .. Len(rowruns) |-> RowRunBox(b, rowruns[k]) ]
        colboxes == [ k \in 1 .. Len(colruns) |-> ColRunBox(b, colruns[k]) ]
    IN  IF pending[1].fn = "lines"
        THEN IF HasZero(ColSumSeq(g, b))
             THEN [calls |-> split_calls("rows", b, colboxes) \o Tail(pending), parts |-> out]
             ELSE IF HasZero(RowSumSeq(g, b))
                  THEN [calls |-> Tail(pending), parts |-> out \o rowboxes]
                  ELSE [calls |-> Tail(pending), parts |-> Append(out, b)]
        ELSE IF HasZero(RowSumSeq(g, b))
             THEN [calls |-> split_calls("lines", b, rowboxes) \o Tail(pending), parts |-> out]
             ELSE IF HasZero(ColSumSeq(g, b))
                  THEN [calls |-> Tail(pending), parts |-> out \o colboxes]
                  ELSE [calls |-> Tail(pending), parts |-> Append(out, b)]

\* variant: the popped cell is not marked visited
flood_step_NoMark(g, f) ==
    LET top  == f.stack[Len(f.stack)]
        rest == SubSeq(f.stack, 1, Len(f.stack) - 1)
        i    == top[1]
        j    == top[2]
    IN  IF i < 0 \/ i >= g.R \/ j < 0 \/ j >= g.C
        THEN [f EXCEPT !.stack = rest, !.pops = @ + 1]
        ELSE IF top \in f.visited \/ ~g.a[top]
             THEN [f EXCEPT !.stack = rest, !.pops = @ + 1]
             ELSE [ stack   |-> rest \o << <<i + 1, j>>, <<i - 1, j>>, <<i, j + 1>>, <<i, j - 1>> >>,
                    visited |-> f.visited,
                    mm      |-> <<Min(f.mm[1], i), Max(f.mm[2], i), Min(f.mm[3], j), Max(f.mm[4], j)>>,
                    marks   |-> [f.marks EXCEPT ![top] = @ + 1],
                    pops    |-> f.pops + 1 ]

\* one iteration of the while loop of flood, lines 124-135; marks counts how
\* often line 130 ran for a cell, pops the iterations
flood_step(g, f) ==
    LET top  == f.stack[Len(f.stack)]
        rest == SubSeq(f.stack, 1, Len(f.stack) - 1)
        i    == top[1]
        j    == top[2]
    IN  IF i < 0 \/ i >= g.R \/ j < 0 \/ j >= g.C
        THEN [f EXCEPT !.stack = rest, !.pops = @ + 1]
        ELSE IF top \in f.visited \/ ~g.a[top]
             THEN [f EXCEPT !.stack = rest, !.pops = @ + 1]
             ELSE [ stack   |-> rest \o << <<i + 1, j>>, <<i - 1, j>>, <<i, j + 1>>, <<i, j - 1>> >>,
                    visited |-> f.visited \cup {top},
                    mm      |-> <<Min(f.mm[1], i), Max(f.mm[2], i), Min(f.mm[3], j), Max(f.mm[4], j)>>,
                    marks   |-> [f.marks EXCEPT ![top] = @ + 1],
                    pops    |-> f.pops + 1 ]

\* flood(r, c) entered at a true cell (line 141), lines 121-123
flood_entry(g, c) ==
    [ stack   |-> << c >>,
      visited |-> {},
      mm      |-> << c[1], c[1], c[2], c[2] >>,
      marks   |-> [ x \in Cells(g.R, g.C) |-> 0 ],
      pops    |-> 0 ]

StepInit ==
    /\ \E d \in Shapes(MaxStepCells) : grid \in Grids(d[1], d[2])
    /\ \/ /\ pc = "splitting"
          /\ bbox \in Boxes(grid.R, grid.C)
          /\ calls = << [fn |-> "lines", box |-> bbox, caller |-> <<>>] >>
          /\ fill = <<>>
       \/ /\ pc = "flooding"
          /\ bbox = <<>>
          /\ calls = <<>>
          /\ \E c \in Cells(grid.R, grid.C) :
                /\ grid.a[c]
                /\ fill = flood_entry(grid, c)
    /\ DbIdle
    /\ parts = <<>>
    /\ min_rows = 0
    /\ min_cols = 0
    /\ islands = <<>>
    /\ implicit_boxes = <<>>
    /\ FormulaIdle
    /\ detected = <<>>
    /\ RangeIdle
    /\ wb = <<>>
    /\ grids = <<>>
    /\ table_info = <<>>
    /\ sheet_name = ""
    /\ cell_ref = <<>>
    /\ cell_rc = <<>>
    /\ site = <<>>
    /\ result = NoneV

\* the running splitter call runs to its return or to its recursive calls
SplitStep ==
    /\ pc = "splitting"
    /\ calls # <<>>
    /\ calls' = split_step(grid, calls, parts).calls
    /\ parts' = split_step(grid, calls, parts).parts
    /\ pc' = IF split_step(grid, calls, parts).calls = <<>> THEN "split" ELSE "splitting"
    /\ UNCHANGED <<grid, bbox, min_rows, min_cols, islands, implicit_boxes, pipeVars, fmlVars,
                   detected, range_str, table_regions, fill, dbVars>>

\* one iteration of the loop of flood; the loop is left on an empty stack
FloodStep ==
    /\ pc = "flooding"
    /\ fill.stack # <<>>
    /\ fill' = flood_step(grid, fill)
    /\ pc' = IF flood_step(grid, fill).stack = <<>> THEN "flooded" ELSE "flooding"
    /\ UNCHANGED <<geomVars, pipeVars, fmlVars, detected, range_str, table_regions, calls, dbVars>>

StepNext == SplitStep \/ FloodStep

\* the interpreter runs the next call or iteration whenever there is one
StepSpec == StepInit /\ [][StepNext]_vars /\ WF_vars(StepNext)

\* ------------------------------------------------------- storage machine
\* process_json_to_postgres of data_store.py, one statement, commit or
\* rollback per step.  Every statement either succeeds or raises.

\* the most tables the tables JSON holds
MaxTables == 2
\* the most data rows a table has
MaxDataRows == 1
\* the most formula objects the formulas JSON holds
MaxFormulas == 2

NoRows == [table_metadata |-> 0, table_data |-> 0, excel_formulas |-> 0]

\* conn.commit(): the rows of the open transaction become durable
commit(rows, durable) ==
    [ t \in DOMAIN durable |-> durable[t] + rows[t] ]

\* the data-row counts of the tables of a tables JSON
TableLists == UNION { [1 .. n -> 0 .. MaxDataRows] : n \in 0 .. MaxTables }

DbInit ==
    /\ pc = "start"
    /\ \E ts \in TableLists, n \in 0 .. MaxFormulas :
          job = [tables |-> ts, formulas |-> n, next |-> 1, failed |-> "none"]
    /\ pool = [out |-> 0, putconn |-> 0]
    /\ in_txn = NoRows
    /\ committed = NoRows
    /\ calls = <<>>
    /\ fill = <<>>
    /\ FormulaIdle
    /\ detected = <<>>
    /\ RangeIdle
    /\ grid = <<>>
    /\ bbox = <<>>
    /\ parts = <<>>
    /\ min_rows = 0
    /\ min_cols = 0
    /\ islands = <<>>
    /\ implicit_boxes = <<>>
    /\ wb = <<>>
    /\ grids = <<>>
    /\ table_info = <<>>
    /\ sheet_name = ""
    /\ cell_ref = <<>>
    /\ cell_rc = <<>>
    /\ site = <<>>
    /\ result = NoneV

\* conn = get_connection(), line 385: a connection of the pool, or the
\* OperationalError of the last attempt, raised before the try block
GetConnection ==
    /\ pc = "start"
    /\ \/ /\ pool' = [pool EXCEPT !.out = @ + 1]
          /\ pc' = "schema"
          /\ UNCHANGED job
       \/ /\ job' = [job EXCEPT !.failed = "connect"]
          /\ pc' = "raised"
          /\ UNCHANGED pool
    /\ UNCHANGED <<in_txn, committed, geomVars, pipeVars, fmlVars, detected, range_str,
                   table_regions, calls, fill>>

\* create_schema, lines 55-101: the statement and its commit, or the
\* rollback and the re-raise
CreateSchema ==
    /\ pc = "schema"
    /\ \/ /\ committed' = commit(in_txn, committed)
          /\ in_txn' = NoRows
          /\ pc' = "tables"
          /\ UNCHANGED job
       \/ /\ in_txn' = NoRows
          /\ job' = [job EXCEPT !.failed = "schema"]
          /\ pc' = "except"
          /\ UNCHANGED committed
    /\ UNCHANGED <<pool, geomVars, pipeVars, fmlVars, detected, range_str, table_regions,
                   calls, fill>>

\* one round of the table loops of extract_and_store_tables_from_json,
\* lines 170-245: the INSERT into table_metadata and, for a table with data
\* rows, the COPY into table_data; either statement may raise, as may the
\* loading of the JSON before the first round
StoreTable ==
    /\ pc = "tables"
    /\ job.next <= Len(job.tables)
    /\ \/ /\ in_txn' = [in_txn EXCEPT !.table_metadata = @ + 1,
                                      !.table_data = @ + job.tables[job.next]]
          /\ job' = [job EXCEPT !.next = @ + 1]
          /\ pc' = "tables"
       \/ /\ job' = [job EXCEPT !.failed = "tables"]
          /\ pc' = "except"
          /\ UNCHANGED in_txn
    /\ UNCHANGED <<pool, committed, geomVars, pipeVars, fmlVars, detected, range_str,
                   table_regions, calls, fill>>

\* conn.commit() of line 248 after the last table
CommitTables ==
    /\ pc = "tables"
    /\ job.next > Len(job.tables)
    /\ committed' = commit(in_txn, committed)
    /\ in_txn' = NoRows
    /\ pc' = "formulas"
    /\ UNCHANGED <<job, pool, geomVars, pipeVars, fmlVars, detected, range_str, table_regions,
                   calls, fill>>

\* extract_and_store_formulas_from_json up to its commit, lines 325-369: the
\* JSON is loaded and its objects are copied into excel_formulas, or the
\* loading or the COPY raises
CopyFormulas ==
    /\ pc = "formulas"
    /\ \/ /\ in_txn' = [in_txn EXCEPT !.excel_formulas = @ + job.formulas]
          /\ pc' = "formulas_copied"
          /\ UNCHANGED job
       \/ /\ job' = [job EXCEPT !.failed = "formulas"]
          /\ pc' = "except"
          /\ UNCHANGED in_txn
    /\ UNCHANGED <<pool, committed, geomVars, pipeVars, fmlVars, detected, range_str,
                   table_regions, calls, fill>>

\* conn.commit() of line 371
CommitFormulas ==
    /\ pc = "formulas_copied"
    /\ committed' = commit(in_txn, committed)
    /\ in_txn' = NoRows
    /\ pc' = "indexes"
    /\ UNCHANGED <<job, pool, geomVars, pipeVars, fmlVars, detected, range_str, table_regions,
                   calls, fill>>

\* create_indexes, lines 103-121: the statement and its commit, or the
\* rollback and the re-raise
CreateIndexes ==
    /\ pc = "indexes"
    /\ \/ /\ committed' = commit(in_txn, committed)
          /\ in_txn' = NoRows
          /\ pc' = "finally"
          /\ UNCHANGED job
       \/ /\ in_txn' = NoRows
          /\ job' = [job EXCEPT !.failed = "indexes"]
          /\ pc' = "except"
          /\ UNCHANGED committed
    /\ UNCHANGED <<pool, geomVars, pipeVars, fmlVars, detected, range_str, table_regions,
                   calls, fill>>

\* the handler of lines 404-407: conn.rollback() drops the rows of the open
\* transaction, then the error is raised again
Rollback ==
    /\ pc = "except"
    /\ in_txn' = NoRows
    /\ pc' = "finally"
    /\ UNCHANGED <<job, pool, committed, geomVars, pipeVars, fmlVars, detected, range_str,
                   table_regions, calls, fill>>

\* return_connection(conn) of the finally clause, lines 408-409
ReturnConnection ==
    /\ pc = "finally"
    /\ pool' = [out |-> pool.out - 1, putconn |-> pool.putconn + 1]
    /\ pc' = IF job.failed = "none" THEN "stored" ELSE "raised"
    /\ UNCHANGED <<job, in_txn, committed, geomVars, pipeVars, fmlVars, detected, range_str,
                   table_regions, calls, fill>>

DbNext ==
    \/ GetConnection
    \/ CreateSchema
    \/ StoreTable
    \/ CommitTables
    \/ CopyFormulas
    \/ CommitFormulas
    \/ CreateIndexes
    \/ Rollback
    \/ ReturnConnection

DbSpec == DbInit /\ [][DbNext]_vars

\* ------------------------------------------------ properties: geometry
\* the 1-based cells of a box
BoxCells(b) == (b[1] .. b[2]) \X (b[3] .. b[4])

\* the 1-based cells of a grid that are true
TrueCells1(g) == { c \in (1 .. g.R) \X (1 .. g.C) : g.a[<<c[1] - 1, c[2] - 1>>] }

BoxInside(b, outer) ==
    /\ outer[1] <= b[1] /\ b[1] <= b[2] /\ b[2] <= outer[2]
    /\ outer[3] <= b[3] /\ b[3] <= b[4] /\ b[4] <= outer[4]

HasEmptyLine(g, b) == HasZero(RowSumSeq(g, b)) \/ HasZero(ColSumSeq(g, b))

\* C4: every region returned by split_bbox_on_empty_lines contains no
\* fully-empty row and no fully-empty column of the grid.
C4_NoEmptyLineInParts ==
    pc = "split" => \A k \in 1 .. Len(parts) : ~HasEmptyLine(grid, parts[k])

\* C5: the regions returned by split_bbox_on_empty_lines lie inside the box,
\* are pairwise disjoint, and together contain every true cell of the box.
C5_SplitLossless ==
    pc = "split" =>
        /\ \A k \in 1 .. Len(parts) : BoxInside(parts[k], bbox)
        /\ \A k, l \in 1 .. Len(parts) :
              k # l => BoxCells(parts[k]) \cap BoxCells(parts[l]) = {}
        /\ \A c \in TrueCells1(grid) \cap BoxCells(bbox) :
              \E k \in 1 .. Len(parts) : c \in BoxCells(parts[k])

\* a split into at least three regions that needed both directions
C5_Witness ==
    /\ pc = "split"
    /\ Len(parts) >= 3
    /\ \E k, l \in 1 .. Len(parts) : parts[k][1] # parts[l][1]
    /\ \E k, l \in 1 .. Len(parts) : parts[k][3] # parts[l][3]

\* C6: a box whose sub-grid has no fully-empty row and no fully-empty
\* column is returned unchanged as the only element of the result.
C6_SplitIdentityOnDense ==
    (pc = "split" /\ ~HasEmptyLine(grid, bbox)) => parts = <<bbox>>

\* a box of several cells, not all of them true, without an empty line
C6_Witness ==
    /\ pc = "split"
    /\ ~HasEmptyLine(grid, bbox)
    /\ bbox[2] > bbox[1] /\ bbox[4] > bbox[3]
    /\ BoxCells(bbox) \ TrueCells1(grid) # {}
    /\ parts = <<bbox>>

\* the 4-neighbours of a 1-based cell
Nbrs4(c) == { <<c[1] + 1, c[2]>>, <<c[1] - 1, c[2]>>, <<c[1], c[2] + 1>>, <<c[1], c[2] - 1>> }

\* the least set of true cells containing S and closed under 4-adjacency
RECURSIVE Closure4(_, _)
Closure4(g, S) ==
    LET T == S \cup { c \in TrueCells1(g) : \E d \in S : c \in Nbrs4(d) }
    IN  IF T = S THEN S ELSE Closure4(g, T)

Components(g) == { Closure4(g, {c}) : c \in TrueCells1(g) }

\* the smallest box enclosing a non-empty set of cells, as (r1, r2, c1, c2)
Extent(S) ==
    << CHOOSE r \in { c[1] : c \in S } : \A c \in S : r <= c[1],
       CHOOSE r \in { c[1] : c \in S } : \A c \in S : r >= c[1],
       CHOOSE q \in { c[2] : c \in S } : \A c \in S : q <= c[2],
       CHOOSE q \in { c[2] : c \in S } : \A c \in S : q >= c[2] >>

Retained(g, mr, mc) ==
    { S \in Components(g) :
        LET e == Extent(S) IN e[2] - e[1] + 1 >= mr /\ e[4] - e[3] + 1 >= mc }

\* C7: flood_fill_islands returns exactly one box per maximal 4-connected
\* component whose bounding box meets the minimum height and width, the box
\* being the component's extent in 1-based coordinates, and nothing else.
C7_IslandsAreComponents ==
    pc = "islands" =>
        /\ Len(islands) = Cardinality(Retained(grid, min_rows, min_cols))
        /\ { islands[k] : k \in 1 .. Len(islands) }
              = { Extent(S) : S \in Retained(grid, min_rows, min_cols) }

\* two retained islands of at least 2 x 2 that touch only diagonally
C7_Witness ==
    /\ pc = "islands"
    /\ min_rows = 2 /\ min_cols = 2
    /\ Len(islands) >= 2
    /\ \E S, T \in Retained(grid, min_rows, min_cols) :
          /\ S # T
          /\ \E c \in S, d \in T : d = <<c[1] + 1, c[2] + 1>> \/ d = <<c[1] + 1, c[2] - 1>>

\* ------------------------------------------------ properties: the report
RegionCells(t) == (t.r1 .. t.r2) \X (t.c1 .. t.c2)

\* C2: within one sheet's table report no two table regions share a cell.
\* For the implicit regions of a sheet this says that the boxes collected
\* from its grid are pairwise disjoint.
C2_RegionsDisjoint ==
    pc = "boxes" =>
        \A k, l \in 1 .. Len(implicit_boxes) :
            k # l => BoxCells(implicit_boxes[k]) \cap BoxCells(implicit_boxes[l]) = {}

\* the rectangle <<r1, c1, r2, c2>> a declared table was written over
DeclaredRect(ws, t) ==
    CHOOSE q \in SheetRects(ws.R, ws.C) : bbox_to_range_str(q[1], q[3], q[2], q[4]) = t.ref

DeclaredCells(ws) ==
    UNION { LET q == DeclaredRect(ws, ws.tables[k]) IN (q[1] .. q[3]) \X (q[2] .. q[4]) :
              k \in 1 .. Len(ws.tables) }

\* C1: in the grid built for a sheet every cell inside an explicit-table
\* range is false, whatever the cell's value is.
C1_ExplicitCellsFalse ==
    pc = "reported" =>
        \A k \in 1 .. Len(wb) :
            \A c \in DeclaredCells(wb[k]) : ~grids[k].a[<<c[1] - 1, c[2] - 1>>]

\* a table over cells that hold values, next to a cell that is true
C1_Witness ==
    /\ pc = "reported"
    /\ \E c \in DeclaredCells(wb[1]), d \in DeclaredCells(wb[1]) :
          c # d /\ wb[1].val[c] # NoneV /\ wb[1].val[d] # NoneV
    /\ \E c \in DOMAIN wb[1].val : grids[1].a[<<c[1] - 1, c[2] - 1>>]

\* C3: no implicit region of the report covers a cell that lies inside an
\* explicit-table range of the same sheet.
C3_ImplicitAvoidsExplicit ==
    pc = "reported" =>
        \A k \in 1 .. Len(wb) :
            \A i \in 1 .. Len(table_info[wb[k].title].implicit_tables) :
                RegionCells(table_info[wb[k].title].implicit_tables[i]) \cap DeclaredCells(wb[k]) = {}

\* a header entry the filter is meant to remove
BadHeader(h) ==
    \/ h = <<>>
    \/ h[1] = "["
    \/ \A k \in 1 .. Len(h) : ~isalpha(h[k])

\* C8: no header list of any region of the report contains an entry that is
\* empty, starts with "[" or has no alphabetic character.
C8_HeadersFiltered ==
    pc = "reported" =>
        \A name \in DOMAIN table_info :
            /\ \A i \in 1 .. Len(table_info[name].explicit_tables) :
                  \A k \in 1 .. Len(table_info[name].explicit_tables[i].headers) :
                      ~BadHeader(table_info[name].explicit_tables[i].headers[k])
            /\ \A i \in 1 .. Len(table_info[name].implicit_tables) :
                  \A k \in 1 .. Len(table_info[name].implicit_tables[i].header) :
                      ~BadHeader(table_info[name].implicit_tables[i].header[k])

\* the sheet of the workbook with the given title
SheetNamed(name) == wb[CHOOSE k \in 1 .. Len(wb) : wb[k].title = name]

\* the header text that belongs to column col of an explicit region: its
\* declared column name, or the first-row text when nothing usable is declared
ExplicitColumnHeader(ws, k, col) ==
    LET t == ws.tables[k]
        q == DeclaredRect(ws, t)
    IN  IF \E j \in 1 .. Len(t.tableColumns) : ~BadHeader(strip(t.tableColumns[j]))
        THEN strip(t.tableColumns[col - q[2] + 1])
        ELSE cell_text(get_merged_cell_value(ws, q[1], col))

\* the header text that belongs to column col of an implicit region: the
\* text of that column in the detected header row
ImplicitColumnHeader(ws, t, col) ==
    detect_header_and_body(ws, t.r1, t.r2, t.c1, t.c2).header[col - t.c1 + 1]

\* C9: in every region the header list is no longer than the region is
\* wide and the entry at ordinal k is the header of column c1 + k, so that
\* find_header_for_cell returns for a cell the header of the cell's column.
C9_HeaderOrdinalIsColumn ==
    /\ pc = "reported" =>
          \A name \in DOMAIN table_info :
              /\ \A i \in 1 .. Len(table_info[name].explicit_tables) :
                    LET t == table_info[name].explicit_tables[i]
                    IN  /\ Len(t.headers) <= t.c2 - t.c1 + 1
                        /\ \A k \in 0 .. Len(t.headers) - 1 :
                              t.headers[k + 1] = ExplicitColumnHeader(SheetNamed(name), i, t.c1 + k)
              /\ \A i \in 1 .. Len(table_info[name].implicit_tables) :
                    LET t == table_info[name].implicit_tables[i]
                    IN  /\ Len(t.header) <= t.c2 - t.c1 + 1
                        /\ \A k \in 0 .. Len(t.header) - 1 :
                              t.header[k + 1] = ImplicitColumnHeader(SheetNamed(name), t, t.c1 + k)
    /\ (pc = "lookup" /\ site.kind = "explicit") =>
          result = StrV(ExplicitColumnHeader(SheetNamed(sheet_name), site.idx, cell_rc[2]))
    /\ (pc = "lookup" /\ site.kind = "implicit") =>
          result = StrV(ImplicitColumnHeader(SheetNamed(sheet_name),
                                             table_info[sheet_name].implicit_tables[site.idx], cell_rc[2]))

\* ------------------------------------------------ properties: the lookup
InRegion(t, rc) == t.r1 <= rc[1] /\ rc[1] <= t.r2 /\ t.c1 <= rc[2] /\ rc[2] <= t.c2

\* C10: find_header_for_cell returns a header only from a region of the
\* named sheet that contains the cell, at ordinal col - c1; and when an
\* explicit region containing the cell has a header at that ordinal, that
\* header is the result whatever the implicit regions are.
C10_LookupInsideExplicitFirst ==
    pc = "lookup" =>
        /\ result # NoneV =>
              /\ sheet_name \in DOMAIN table_info
              /\ site.kind \in {"explicit", "implicit"}
              /\ LET regs == IF site.kind = "explicit"
                             THEN table_info[sheet_name].explicit_tables
                             ELSE table_info[sheet_name].implicit_tables
                 IN  /\ site.idx \in 1 .. Len(regs)
                     /\ InRegion(regs[site.idx], cell_rc)
                     /\ LET hs == IF site.kind = "explicit" THEN regs[site.idx].headers
                                  ELSE regs[site.idx].header
                        IN  /\ cell_rc[2] - regs[site.idx].c1 + 1 \in 1 .. Len(hs)
                            /\ result = StrV(hs[cell_rc[2] - regs[site.idx].c1 + 1])
        /\ sheet_name \in DOMAIN table_info =>
              \A i \in 1 .. Len(table_info[sheet_name].explicit_tables) :
                  LET t == table_info[sheet_name].explicit_tables[i]
                  IN  (InRegion(t, cell_rc) /\ cell_rc[2] - t.c1 < Len(t.headers))
                          => result = StrV(t.headers[cell_rc[2] - t.c1 + 1])

\* a cell inside an explicit region and inside an implicit region, both with
\* a header for the cell's column; the explicit header is returned
C10_Witness ==
    /\ pc = "lookup"
    /\ site.kind = "explicit"
    /\ result # NoneV
    /\ \E i \in 1 .. Len(table_info[sheet_name].implicit_tables) :
          LET t == table_info[sheet_name].implicit_tables[i]
          IN  /\ InRegion(t, cell_rc)
              /\ cell_rc[2] - t.c1 < Len(t.header)
              /\ StrV(t.header[cell_rc[2] - t.c1 + 1]) # result

\* the index of the first region of seq that contains cell rc, 0 if none
FirstContaining(seq, rc) ==
    IF \E k \in 1 .. Len(seq) : InRegion(seq[k], rc)
    THEN CHOOSE k \in 1 .. Len(seq) :
            InRegion(seq[k], rc) /\ \A j \in 1 .. k - 1 : ~InRegion(seq[j], rc)
    ELSE 0

\* the region that owns cell rc: the first explicit region containing it,
\* else the first implicit one
Owner(tables, rc) ==
    IF FirstContaining(tables.explicit_tables, rc) # 0
    THEN [kind |-> "explicit", idx |-> FirstContaining(tables.explicit_tables, rc)]
    ELSE IF FirstContaining(tables.implicit_tables, rc) # 0
         THEN [kind |-> "implicit", idx |-> FirstContaining(tables.implicit_tables, rc)]
         ELSE [kind |-> "none", idx |-> 0]

\* the owner of rc exists and its header list has no entry at ordinal col - c1
OwnerLacksHeader(tables, rc) ==
    /\ Owner(tables, rc).kind # "none"
    /\ LET t == IF Owner(tables, rc).kind = "explicit"
                THEN tables.explicit_tables[Owner(tables, rc).idx]
                ELSE tables.implicit_tables[Owner(tables, rc).idx]
       IN  rc[2] - t.c1 >= Len(headers_of(t, Owner(tables, rc).kind))

\* C11: when the region that owns the cell has no header at ordinal
\* col - c1, find_header_for_cell returns None and no header of another
\* region.
C11_OwnerWithoutHeaderGivesNone ==
    (pc = "lookup" /\ sheet_name \in DOMAIN table_info /\ OwnerLacksHeader(table_info[sheet_name], cell_rc))
        => result = NoneV

\* ------------------------------------------------ properties: annotation
\* t is a reference: an optional "$", one to three letters, an optional "$"
\* and one or more digits
IsRef(t) ==
    \E a \in 0 .. 1, L \in 1 .. 3, b \in 0 .. 1 :
        /\ a + L + b < Len(t)
        /\ a = 1 => t[1] = "$"
        /\ \A k \in a + 1 .. a + L : isalpha(t[k])
        /\ b = 1 => t[a + L + 1] = "$"
        /\ \A k \in a + L + b + 1 .. Len(t) : isdigit(t[k])

\* positions i .. j of s hold a reference that is not part of a longer
\* alphanumeric token
Standalone(s, i, j) ==
    /\ i <= j /\ j <= Len(s)
    /\ IsRef(SubSeq(s, i, j))
    /\ i = 1 \/ ~is_word(s[i - 1])
    /\ j = Len(s) \/ ~is_word(s[j + 1])

\* the reference resolves to a header
Resolves(ref, name, info) == find_header_for_cell(name, ref, info) # NoneV

\* the end of the standalone resolving reference that begins at i, 0 if none
StandaloneEnd(s, i, name, info) ==
    IF \E j \in i .. Len(s) : Standalone(s, i, j) /\ Resolves(SubSeq(s, i, j), name, info)
    THEN CHOOSE j \in i .. Len(s) : Standalone(s, i, j) /\ Resolves(SubSeq(s, i, j), name, info)
    ELSE 0

\* s from position i on with every standalone resolving reference replaced
\* by its header in brackets and everything else kept
RECURSIVE Annotated(_, _, _, _)
Annotated(s, i, name, info) ==
    IF i > Len(s) THEN <<>>
    ELSE IF StandaloneEnd(s, i, name, info) # 0
         THEN bracketed(find_header_for_cell(name, SubSeq(s, i, StandaloneEnd(s, i, name, info)), info).s)
              \o Annotated(s, StandaloneEnd(s, i, name, info) + 1, name, info)
         ELSE << s[i] >> \o Annotated(s, i + 1, name, info)

\* C12: the annotated formula is the formula with every standalone
\* occurrence of a reference that resolves to a header replaced by
\* "[header]", and nothing else changed: no reference inside a longer
\* alphanumeric token is replaced.
C12_StandaloneRefsAnnotated ==
    pc = "recorded" => record.readable_formula = Annotated(formula, 1, sheet_name, table_info)

\* ---------------------------------------------- properties: dependencies
\* the raw reference list the dependencies are taken from: the entries
\* derived from the evaluator's inputs when it has any for the cell, else
\* the references of the formula text
RawRefs ==
    IF excel_model.loaded /\ excel_model.has_cell /\ excel_model.inputs # <<>>
    THEN [ k \in 1 .. Len(excel_model.inputs) |-> simple_dep(excel_model.inputs[k]) ]
    ELSE extract_references(formula)

\* the position of the first occurrence of x in seq
FirstPos(seq, x) == CHOOSE k \in 1 .. Len(seq) : seq[k] = x /\ \A j \in 1 .. k - 1 : seq[j] # x

\* C13: the dependencies hold every distinct element of the raw reference
\* list exactly once, in the order of first occurrence, and deduplicating
\* them again changes nothing.
C13_DependenciesFirstSeen ==
    pc = "recorded" =>
        /\ Range(record.dependencies) = Range(RawRefs)
        /\ \A a, b \in 1 .. Len(record.dependencies) :
              a < b => /\ record.dependencies[a] # record.dependencies[b]
                       /\ FirstPos(RawRefs, record.dependencies[a]) < FirstPos(RawRefs, record.dependencies[b])
        /\ dict_fromkeys(record.dependencies) = record.dependencies

\* a raw list with repeats whose first-seen order is not the sorted order
C13_Witness ==
    /\ pc = "recorded"
    /\ Len(RawRefs) = 4
    /\ record.dependencies = << << "B", "2" >>, << "A", "1" >> >>

\* t is a range token: two corners, each one to three letters, an optional
\* "$" and one or more digits, joined by ":"
IsCorner(t) ==
    \E L \in 1 .. 3, b \in 0 .. 1 :
        /\ L + b < Len(t)
        /\ \A k \in 1 .. L : isalpha(t[k])
        /\ b = 1 => t[L + 1] = "$"
        /\ \A k \in L + b + 1 .. Len(t) : isdigit(t[k])

IsRangeToken(t) ==
    \E k \in 2 .. Len(t) - 1 :
        t[k] = ":" /\ IsCorner(SubSeq(t, 1, k - 1)) /\ IsCorner(SubSeq(t, k + 1, Len(t)))

\* the range tokens embedded in d, as <<first, last>> positions
RangeSpans(d) == { ij \in (1 .. Len(d)) \X (1 .. Len(d)) : ij[1] < ij[2] /\ IsRangeToken(SubSeq(d, ij[1], ij[2])) }

\* what an evaluator input contributes: its leftmost (then longest) embedded
\* range token, the entry itself when it embeds none
Contribution(d) ==
    IF RangeSpans(d) = {} THEN d
    ELSE LET ij == CHOOSE ij \in RangeSpans(d) :
                      \A o \in RangeSpans(d) : ij[1] < o[1] \/ (ij[1] = o[1] /\ ij[2] >= o[2])
         IN  SubSeq(d, ij[1], ij[2])

\* deps holds the distinct elements of raw, each once, in first-seen order
IsFirstSeenDedup(deps, raw) ==
    /\ Range(deps) = Range(raw)
    /\ \A a, b \in 1 .. Len(deps) :
          a < b => deps[a] # deps[b] /\ FirstPos(raw, deps[a]) < FirstPos(raw, deps[b])

\* C14: without a loaded evaluator, or without inputs for the cell, the
\* record is produced with the first-seen deduplication of the references
\* of the formula text as dependencies; with inputs, the dependencies are
\* the first-seen deduplication of the inputs' contributions.
C14_DependencySource ==
    pc = "recorded" =>
        /\ record.formula = formula
        /\ IF excel_model.loaded /\ excel_model.has_cell /\ excel_model.inputs # <<>>
           THEN IsFirstSeenDedup(record.dependencies,
                                 [ k \in 1 .. Len(excel_model.inputs) |-> Contribution(excel_model.inputs[k]) ])
           ELSE IsFirstSeenDedup(record.dependencies, extract_references(formula))

\* the evaluator did not load and the formula text repeats a reference
C14_Witness ==
    /\ pc = "recorded"
    /\ ~excel_model.loaded
    /\ record.dependencies # <<>>
    /\ Len(extract_references(formula)) > Len(record.dependencies)

\* the evaluator has inputs for the cell, one with a range token and one without
C14_InputsReached ==
    /\ pc = "recorded"
    /\ excel_model.has_cell
    /\ \E a, b \in 1 .. Len(excel_model.inputs) :
          /\ Contribution(excel_model.inputs[a]) # excel_model.inputs[a]
          /\ Contribution(excel_model.inputs[b]) = excel_model.inputs[b]
          /\ Contribution(excel_model.inputs[a]) \in Range(record.dependencies)
          /\ excel_model.inputs[b] \in Range(record.dependencies)

\* the positions of s at which the text t begins
Occurrences(t, s) == { i \in 1 .. Len(s) - Len(t) + 1 : SubSeq(s, i, i + Len(t) - 1) = t }

\* the positions of s at which t begins as a standalone reference
StandaloneOccurrences(t, s) == { i \in Occurrences(t, s) : Standalone(s, i, i + Len(t) - 1) }

\* the address of the reference cannot be parsed
Unparsable(ref) == ~coordinate_from_string(remove_dollar(ref)).ok

\* every header the formula's references resolve to is free of reference text
PlainHeaders(refs, name, info) ==
    \A r \in refs :
        Resolves(r, name, info) => extract_references(find_header_for_cell(name, r, info).s) = <<>>

\* C15: a reference without a resolvable header, or with an address that
\* cannot be parsed, stays in the text as it is and does not stop the
\* annotation: the references that resolve are still annotated, and a
\* formula none of whose references resolves comes back unchanged.
C15_UnresolvedLeftUnchanged ==
    pc = "recorded" =>
        LET refs == Range(extract_references(formula))
            out  == record.readable_formula
        IN  /\ (\A r \in refs : ~Resolves(r, sheet_name, table_info)) => out = formula
            /\ \A r \in refs :
                  ~Resolves(r, sheet_name, table_info)
                      => Cardinality(Occurrences(r, out)) >= Cardinality(Occurrences(r, formula))
            /\ \A r \in refs :
                  (Resolves(r, sheet_name, table_info) /\ StandaloneOccurrences(r, formula) # {})
                      => /\ out # formula
                         /\ PlainHeaders(refs, sheet_name, table_info)
                               => /\ StandaloneOccurrences(r, out) = {}
                                  /\ Occurrences(bracketed(find_header_for_cell(sheet_name, r, table_info).s), out) # {}

\* a formula with a reference that cannot be parsed next to one that resolves
C15_Witness ==
    /\ pc = "recorded"
    /\ \E r, q \in Range(extract_references(formula)) :
          /\ Unparsable(r)
          /\ Occurrences(r, record.readable_formula) # {}
          /\ Resolves(q, sheet_name, table_info)
          /\ StandaloneOccurrences(q, formula) # {}
          /\ Occurrences(bracketed(find_header_for_cell(sheet_name, q, table_info).s), record.readable_formula) # {}

\* ------------------------------------------------ properties: the grid
\* C16: every cell of a hidden row and every cell of a hidden column is
\* false in the grid built for the sheet, whatever its value.
C16_HiddenCellsFalse ==
    pc = "reported" =>
        \A k \in 1 .. Len(wb) :
            \A c \in SheetCells(wb[k].R, wb[k].C) :
                (c[1] \in wb[k].hidden_rows \/ c[2] \in wb[k].hidden_cols)
                    => ~grids[k].a[<<c[1] - 1, c[2] - 1>>]

\* ------------------------------------------- properties: header detection
\* the text of row r (1-based within the region) of the region bbox of ws
RegionRow(ws, b, r) ==
    [ j \in 1 .. (b[4] - b[3] + 1) |-> cell_text(get_merged_cell_value(ws, b[1] + r - 1, b[3] + j - 1)) ]

\* the non-blank cells of a row with, and without, an alphabetic character
AlphaCells(row) == { k \in 1 .. Len(row) : row[k] # <<>> /\ \E n \in 1 .. Len(row[k]) : isalpha(row[k][n]) }
OtherCells(row) == { k \in 1 .. Len(row) : row[k] # <<>> /\ \A n \in 1 .. Len(row[k]) : ~isalpha(row[k][n]) }

\* row r of the region qualifies as header row
Qualifies(ws, b, r) ==
    /\ r < b[2] - b[1] + 1
    /\ 2 * Cardinality(AlphaCells(RegionRow(ws, b, r))) >= b[4] - b[3] + 1
    /\ 3 * Cardinality(OtherCells(RegionRow(ws, b, r + 1))) >= b[4] - b[3] + 1

\* C17: the header is the first row of the region that qualifies, and the
\* region's first row when none does (a single-row region included).
C17_FirstQualifyingRow ==
    pc = "detected" =>
        \E r \in 1 .. (bbox[2] - bbox[1] + 1) :
            /\ detected.header = RegionRow(wb[1], bbox, r)
            /\ \A q \in 1 .. r - 1 : ~Qualifies(wb[1], bbox, q)
            /\ Qualifies(wb[1], bbox, r) \/ (r = 1 /\ \A q \in 1 .. (bbox[2] - bbox[1] + 1) : ~Qualifies(wb[1], bbox, q))

\* the first row does not qualify, the second does, and the header differs
\* from the first row
C17_Witness ==
    /\ pc = "detected"
    /\ ~Qualifies(wb[1], bbox, 1)
    /\ Qualifies(wb[1], bbox, 2)
    /\ detected.header = RegionRow(wb[1], bbox, 2)
    /\ detected.header # RegionRow(wb[1], bbox, 1)

\* a single-row region and a region without a qualifying row give the first row
C17_FallbackReached ==
    /\ pc = "detected"
    /\ bbox[2] - bbox[1] + 1 >= 2
    /\ \A q \in 1 .. (bbox[2] - bbox[1] + 1) : ~Qualifies(wb[1], bbox, q)
    /\ detected.header = RegionRow(wb[1], bbox, 1)

\* ------------------------------------------------ properties: numbering
\* the first cell of a set of cells in row-major order
FirstCell(S) == CHOOSE c \in S : \A d \in S : c[1] < d[1] \/ (c[1] = d[1] /\ c[2] <= d[2])

RowMajorBefore(a, b) == a[1] < b[1] \/ (a[1] = b[1] /\ a[2] < b[2])

\* the components of g that are at least 2 x 2, ordered by their top-most,
\* then left-most cell
DiscoveryOrder(g) ==
    CHOOSE seq \in [1 .. Cardinality(Retained(g, 2, 2)) -> Retained(g, 2, 2)] :
        \A a, b \in 1 .. Cardinality(Retained(g, 2, 2)) :
            a < b => RowMajorBefore(FirstCell(seq[a]), FirstCell(seq[b]))

\* the regions of the components from the k-th on, each component's extent
\* split on its empty lines
RECURSIVE RegionsInOrder(_, _, _)
RegionsInOrder(g, seq, k) ==
    IF k > Len(seq) THEN <<>>
    ELSE split_bbox_on_empty_lines(g, Extent(seq[k])) \o RegionsInOrder(g, seq, k + 1)

\* the N of a name "Table N"
NumberOf(name) == StrToInt(SubSeq(name, 7, Len(name)))

\* the names of a sheet's report in encounter order
NamesInOrder(rep) ==
    [ k \in 1 .. Len(rep.explicit_tables) |-> rep.explicit_tables[k].table_name ]
    \o [ k \in 1 .. Len(rep.implicit_tables) |-> rep.implicit_tables[k].table_name ]

\* the table at position p of the encounter order got a synthesized name
Synthesized(rep, p) == p > Len(rep.explicit_tables) \/ rep.explicit_tables[p].name = <<>>

\* the sheet's report numbers its tables with one counter from 1 on
NumberedInOrder(ws, g, rep) ==
    /\ Len(rep.explicit_tables) = Len(ws.tables)
    /\ \A k \in 1 .. Len(ws.tables) :
          /\ rep.explicit_tables[k].range = ws.tables[k].ref
          /\ ws.tables[k].displayName # <<>> => rep.explicit_tables[k].table_name = ws.tables[k].displayName
    /\ [ k \in 1 .. Len(rep.implicit_tables) |->
           << rep.implicit_tables[k].r1, rep.implicit_tables[k].r2,
              rep.implicit_tables[k].c1, rep.implicit_tables[k].c2 >> ]
          = RegionsInOrder(g, DiscoveryOrder(g), 1)
    /\ \A p \in 1 .. Len(NamesInOrder(rep)) :
          Synthesized(rep, p) =>
              /\ SubSeq(NamesInOrder(rep)[p], 1, 6) = << "T", "a", "b", "l", "e", " " >>
              /\ NumberOf(NamesInOrder(rep)[p]) = p
    /\ \A p, q \in 1 .. Len(NamesInOrder(rep)) :
          (p < q /\ Synthesized(rep, p) /\ Synthesized(rep, q))
              => NumberOf(NamesInOrder(rep)[p]) < NumberOf(NamesInOrder(rep)[q])

\* C18: on every sheet one counter starting at 1 numbers the tables in
\* encounter order, the explicit tables in declared order and then the
\* implicit ones in the row-major discovery order of their islands, so the
\* N of the names "Table N" are distinct and increasing; the counter starts
\* again on the next sheet.
C18_OneCounterPerSheet ==
    pc = "reported" =>
        \A k \in 1 .. Len(wb) : NumberedInOrder(wb[k], grids[k], table_info[wb[k].title])

\* an unnamed explicit table and two implicit tables on the first sheet, and
\* a table named "Table 1" on the second sheet
C18_Witness ==
    /\ pc = "reported"
    /\ Len(table_info["Sheet1"].explicit_tables) = 1
    /\ table_info["Sheet1"].explicit_tables[1].table_name = table_n(1)
    /\ Len(table_info["Sheet1"].implicit_tables) = 2
    /\ table_info["Sheet1"].implicit_tables[2].table_name = table_n(3)
    /\ table_info["Sheet2"].implicit_tables[1].table_name = table_n(1)

\* ------------------------------------------------ properties: ranges
\* the value of a word over A .. Z in bijective base 26 (A = 1, no zero)
RECURSIVE Bijective26(_)
Bijective26(t) ==
    IF t = <<>> THEN 0
    ELSE 26 * Bijective26(SubSeq(t, 1, Len(t) - 1))
         + (CHOOSE k \in 1 .. 26 : UpperLetters[k] = t[Len(t)])

\* the value of a decimal numeral
RECURSIVE Decimal(_)
Decimal(t) ==
    IF t = <<>> THEN 0
    ELSE 10 * Decimal(SubSeq(t, 1, Len(t) - 1))
         + (CHOOSE k \in 0 .. 9 : DigitChars[k + 1] = t[Len(t)])

\* t is the corner <col(c)><r>: capital letters worth c, then the decimal
\* numeral of r without a leading zero
IsCornerOf(t, r, c) ==
    \E n \in 1 .. Len(t) - 1 :
        /\ \A k \in 1 .. n : \E l \in 1 .. 26 : UpperLetters[l] = t[k]
        /\ \A k \in n + 1 .. Len(t) : isdigit(t[k])
        /\ t[n + 1] # "0"
        /\ Bijective26(SubSeq(t, 1, n)) = c
        /\ Decimal(SubSeq(t, n + 1, Len(t))) = r

\* C19: for a box with 1 <= r1 <= r2 and 1 <= c1 <= c2 (columns of at most
\* three letters) bbox_to_range_str gives <col(c1)><r1>:<col(c2)><r2> with
\* bijective base-26 column letters, and reading that range back gives
\* (r1, c1, r2, c2).
C19_RangeRoundTrip ==
    pc = "ranged" =>
        /\ \E k \in 1 .. Len(range_str) :
              /\ range_str[k] = ":"
              /\ IsCornerOf(SubSeq(range_str, 1, k - 1), bbox[1], bbox[3])
              /\ IsCornerOf(SubSeq(range_str, k + 1, Len(range_str)), bbox[2], bbox[4])
        /\ Len(table_regions) = 1
        /\ << table_regions[1].r1, table_regions[1].c1, table_regions[1].r2, table_regions[1].c2 >>
              = << bbox[1], bbox[3], bbox[2], bbox[4] >>

\* (r1 = 1, c1 = 1, r2 = 10, c2 = 3) <-> "A1:C10"
C19_Witness ==
    /\ pc = "ranged"
    /\ bbox = << 1, 10, 1, 3 >>
    /\ range_str = << "A", "1", ":", "C", "1", "0" >>
    /\ << table_regions[1].r1, table_regions[1].c1, table_regions[1].r2, table_regions[1].c2 >> = << 1, 1, 10, 3 >>

\* a box whose corners need one and three column letters
C19_ThreeLettersReached ==
    /\ pc = "ranged"
    /\ bbox[3] = 26
    /\ bbox[4] = 703
    /\ range_str = << "Z", "1", ":", "A", "A", "A", "1", "2" >>

\* ------------------------------------------------ properties: the scenario
\* rows r1 .. r2 of ws are blank
BlankRows(ws, r1, r2) == \A c \in SheetCells(ws.R, ws.C) : (r1 <= c[1] /\ c[1] <= r2) => ws.val[c] = NoneV

\* from row 9 on, ws holds one block: a row of texts over rows of numbers,
\* in the same two or more adjacent columns, and nothing else
BlockFromRow9(ws) ==
    /\ ws.R >= 10
    /\ \E c1 \in 1 .. ws.C, c2 \in 1 .. ws.C :
          /\ c1 < c2
          /\ \A c \in SheetCells(ws.R, ws.C) :
                c[1] >= 9 =>
                    IF c[2] < c1 \/ c[2] > c2 THEN ws.val[c] = NoneV
                    ELSE IF c[1] = 9 THEN ws.val[c].t = "str" /\ looks_text(ws.val[c].s)
                    ELSE ws.val[c].t = "int"

\* the sheet of the scenario: one declared table Sales over A1:C5, three
\* blank rows below it, then the block
IsScenario(ws) ==
    /\ Len(ws.tables) = 1
    /\ ws.tables[1].displayName = SalesName
    /\ ws.tables[1].ref = << "A", "1", ":", "C", "5" >>
    /\ ws.C = 3
    /\ BlankRows(ws, 6, 8)
    /\ BlockFromRow9(ws)

\* C20: for the sheet of the scenario the report lists exactly one explicit
\* table, Sales, and exactly one implicit table, "Table 2", which starts at
\* row 9 and holds no row of the explicit table.
C20_SalesAndOneImplicit ==
    (pc = "reported" /\ IsScenario(wb[1])) =>
        /\ Len(table_info["Sheet1"].explicit_tables) = 1
        /\ table_info["Sheet1"].explicit_tables[1].table_name = SalesName
        /\ Len(table_info["Sheet1"].implicit_tables) = 1
        /\ table_info["Sheet1"].implicit_tables[1].table_name = << "T", "a", "b", "l", "e", " ", "2" >>
        /\ table_info["Sheet1"].implicit_tables[1].r1 = 9
        /\ table_info["Sheet1"].implicit_tables[1].r2 = wb[1].R
        /\ (table_info["Sheet1"].implicit_tables[1].r1 .. table_info["Sheet1"].implicit_tables[1].r2)
              \cap (table_info["Sheet1"].explicit_tables[1].r1 .. table_info["Sheet1"].explicit_tables[1].r2) = {}

\* the scenario with a block of two rows in columns B and C
C20_Witness ==
    /\ pc = "reported"
    /\ IsScenario(wb[1])
    /\ table_info["Sheet1"].explicit_tables[1].range = << "A", "1", ":", "C", "5" >>
    /\ table_info["Sheet1"].implicit_tables[1].range = << "B", "9", ":", "C", "1", "0" >>

\* ------------------------------------------ properties: merged cells
\* the merge range m = <<min_col, min_row, max_col, max_row>> covers the
\* cell c = <<row, col>> without anchoring it
NonAnchor(m, c) ==
    /\ m[2] <= c[1] /\ c[1] <= m[4] /\ m[1] <= c[2] /\ c[2] <= m[3]
    /\ c # << m[2], m[1] >>

\* C21: a non-anchor cell of a merge range whose anchor holds a value is
\* true in the grid, unless its column is hidden or an explicit table
\* covers it.
C21_MergedBlockNonEmpty ==
    pc = "reported" =>
        \A k \in 1 .. Len(wb) :
            \A m \in wb[k].merged :
                \A c \in SheetCells(wb[k].R, wb[k].C) :
                    ( /\ NonAnchor(m, c)
                      /\ cell_value(wb[k], m[2], m[1]) # NoneV
                      /\ c[1] \notin wb[k].hidden_rows
                      /\ c[2] \notin wb[k].hidden_cols
                      /\ ~explicit_mask(get_explicit_table_regions(wb[k]), c[1] - 1, c[2] - 1) )
                        => grids[k].a[<<c[1] - 1, c[2] - 1>>]

\* ------------------------------------ properties: islands and the splitter
\* the box b = <<r1, r2, c1, c2>> holds a false cell of the grid g
HasGap(g, b) == \E i \in b[1] .. b[2], j \in b[3] .. b[4] : ~g.a[<<i - 1, j - 1>>]

\* C22: the splitter returns every box of flood_fill_islands as it is, so
\* the implicit boxes of the report are exactly the islands.
C22_SplitterKeepsIslands ==
    /\ pc = "islands" =>
          \A k \in 1 .. Len(islands) : split_bbox_on_empty_lines(grid, islands[k]) = << islands[k] >>
    /\ pc = "boxes" => implicit_boxes = islands

\* two islands were found, one of them with a false cell in its box
C22_Witness ==
    /\ pc = "islands"
    /\ Len(islands) = 2
    /\ \E k \in 1 .. 2 : HasGap(grid, islands[k])

\* the report's boxes for a grid whose island has a false cell in its box
C22_BoxesReached ==
    /\ pc = "boxes"
    /\ implicit_boxes # <<>>
    /\ HasGap(grid, implicit_boxes[1])

\* ------------------------------------------------ properties: termination
\* box a lies within box b and is narrower or shorter
StrictlySmaller(a, b) ==
    /\ b[1] <= a[1] /\ a[2] <= b[2] /\ b[3] <= a[3] /\ a[4] <= b[4]
    /\ (a[2] - a[1] < b[2] - b[1]) \/ (a[4] - a[3] < b[4] - b[3])

\* every recursive call of the splitter is on a box strictly smaller than
\* its caller's
CallsShrink ==
    pc = "splitting" =>
        \A k \in 1 .. Len(calls) :
            calls[k].caller # <<>> => StrictlySmaller(calls[k].box, calls[k].caller)

\* flood marks only true cells, each at most once, and runs at most one
\* iteration for the entry and four for every marked cell
MarkedOnce ==
    pc \in {"flooding", "flooded"} =>
        /\ \A c \in Cells(grid.R, grid.C) : fill.marks[c] <= (IF grid.a[c] THEN 1 ELSE 0)
        /\ fill.pops <= 1 + 4 * Cardinality(fill.visited)

\* the stepwise runs return what the functions return
StepsAgree ==
    /\ pc = "split" => parts = split_bbox_on_empty_lines(grid, bbox)
    /\ pc = "flooded" =>
          \E c \in Cells(grid.R, grid.C) :
              /\ grid.a[c]
              /\ fill.mm = flood(grid, << c >>, {}, << c[1], c[1], c[2], c[2] >>).box
              /\ fill.visited = flood(grid, << c >>, {}, << c[1], c[1], c[2], c[2] >>).visited

\* C23: the splitter and flood terminate on every grid and box: every
\* recursive call is on a strictly smaller box, flood marks each true cell
\* at most once, and every run reaches its return.
C23_Terminates ==
    /\ [](CallsShrink /\ MarkedOnce)
    /\ <>(pc \in {"split", "flooded"})

\* a splitter run two calls deep: split_bbox_on_empty_rows calls
\* split_bbox_on_empty_lines again
C23_Witness ==
    /\ pc = "splitting"
    /\ \E k \in 1 .. Len(calls) : calls[k].fn = "lines" /\ calls[k].caller # <<>>

\* a fill that marked four cells and has returned
C23_FillReached ==
    /\ pc = "flooded"
    /\ Cardinality(fill.visited) >= 4
    /\ fill.pops > Cardinality(fill.visited)

\* ------------------------------------- properties: sequential annotation
\* the references of refs that have a header and match at position i of s
\* as the pattern of line 525 matches
MatchingAt(s, i, refs, name, info) ==
    { r \in refs : truthy(find_header_for_cell(name, r, info)) /\ sub_matches(r, s, i) }

\* the longest of a non-empty set of texts
Longest(ts) == CHOOSE t \in ts : \A u \in ts : Len(u) <= Len(t)

\* s from position i on with every match of a reference of refs replaced at
\* once: the replacements are never read again
RECURSIVE Simultaneous(_, _, _, _, _)
Simultaneous(s, i, refs, name, info) ==
    IF i > Len(s) THEN <<>>
    ELSE IF MatchingAt(s, i, refs, name, info) # {}
         THEN bracketed(find_header_for_cell(name, Longest(MatchingAt(s, i, refs, name, info)), info).s)
              \o Simultaneous(s, i + Len(Longest(MatchingAt(s, i, refs, name, info))), refs, name, info)
         ELSE << s[i] >> \o Simultaneous(s, i + 1, refs, name, info)

\* C24: rewriting one reference after the other gives what replacing all
\* standalone resolvable references of the formula at once gives: an
\* inserted "[header]" is never rewritten by a later substitution.
C24_SequentialIsSimultaneous ==
    pc = "recorded" =>
        record.readable_formula
            = Simultaneous(formula, 1, Range(extract_references(formula)), sheet_name, table_info)

\* ------------------------------------------------ properties: storage
\* the run has ended, by returning or by raising
RunEnded == pc \in {"stored", "raised"}

\* on every path the connection obtained went back to the pool exactly once
ConnectionReturnedOnce ==
    RunEnded =>
        /\ pool.out = 0
        /\ pool.putconn = (IF job.failed = "connect" THEN 0 ELSE 1)

\* C25: a run that fails after the schema was created leaves no row of
\* table_metadata, table_data or excel_formulas committed, and on every
\* path the connection obtained is returned to the pool exactly once.
C25_AllOrNothing ==
    /\ (pc = "raised" /\ job.failed \in {"tables", "formulas", "indexes"}) => committed = NoRows
    /\ ConnectionReturnedOnce

====
